---------------------------- MODULE Spec2Model ----------------------------
(***************************************************************************)
(* A model of eddy's rotationmap (src/eddy/fit_cube.py) with the geometry  *)
(* of src/eddy/deprojection.py: the parameter dictionary, the              *)
(* inverse-variance mask, the priors, the log-probability and fit_map.     *)
(*                                                                         *)
(* Numbers.  Python floats are fixed-point integers, each quantity in its  *)
(* own unit: angles inc, PA in degrees; sky offsets in half pixels (the    *)
(* axes are <<-2, 0, 2>>); stellar mass and exponents in tenths; log       *)
(* densities in thousandths.  A value that can be nan or infinite (a map   *)
(* pixel, a log density) is a record Fin(v), NaN, NegInf or PosInf.        *)
(*                                                                         *)
(* Dictionaries.  A Python dict is the sequence of its items               *)
(* [k |-> key, v |-> value] in insertion order; a value is a record        *)
(* [t |-> type, v |-> number] with t one of "none", "bool", "int",         *)
(* "float", "str".                                                         *)
(***************************************************************************)
EXTENDS Integers, Sequences, FiniteSets, TLC

VARIABLES
    data,       \* self.data: pixel -> Fin(v) or NaN                [km/s]
    error,      \* self.error: pixel -> uncertainty
    shadowed,   \* self.shadowed
    params,     \* the params dictionary handed to the call
    theta,      \* the free-parameter vector handed to the call
    priors,     \* rotationmap.priors, the registry shared by the class
    ret,        \* the last call: [op, arg, theta, err, val]
    \* one call of fit_map: where it is, and its locals
    pc,         \* "idle", "validated", "start", "loop", "mask_built",
                \* "sampled", "done" or "raised"
    call,       \* its arguments besides p0 and params
    p0,         \* p0
    res,        \* res of _optimize_p0: [ran, success, x]
    params_tmp, \* params_tmp
    ivar,       \* self.ivar
    iter,       \* n of the loop: how many rounds have been completed
    sampler,    \* sampler: [chain, lnprobability]
    samples,    \* samples
    medians,    \* medians
    max_likelihood, \* max_likelihood
    trace       \* what the call has done so far, in order

fitvars == <<pc, call, p0, res, params_tmp, ivar, iter, sampler, samples, medians,
             max_likelihood, trace>>
vars == <<data, error, shadowed, params, theta, priors, ret, fitvars>>

-----------------------------------------------------------------------------
(* Extended reals.                                                         *)

Fin(x) == [k |-> "fin", v |-> x]
NaN == [k |-> "nan", v |-> 0]
NegInf == [k |-> "-inf", v |-> 0]
PosInf == [k |-> "+inf", v |-> 0]

\* np.isfinite
isfinite(x) == x.k = "fin"

\* x + y on extended reals
add(x, y) ==
    IF isfinite(x) /\ isfinite(y) THEN Fin(x.v + y.v)
    ELSE IF x = NaN \/ y = NaN THEN NaN
    ELSE IF isfinite(x) THEN y
    ELSE IF isfinite(y) \/ x = y THEN x
    ELSE NaN

-----------------------------------------------------------------------------
(* Python values and dictionaries.                                         *)

NoneV == [t |-> "none", v |-> 0]
BoolV(b) == [t |-> "bool", v |-> IF b THEN 1 ELSE 0]
IntV(i) == [t |-> "int", v |-> i]
FloatV(x) == [t |-> "float", v |-> x]
\* the two rotation laws verify_params_dictionary names
proj_vkep == [t |-> "str", v |-> 0]
proj_vpow == [t |-> "str", v |-> 1]

\* isinstance(x, int): a bool is an int in Python
IsInstanceInt(x) == x.t \in {"int", "bool"}
IsInstanceBool(x) == x.t = "bool"

Item(key, val) == [k |-> key, v |-> val]
Keys(d) == {d[i].k : i \in DOMAIN d}
Has(d, key) == key \in Keys(d)
\* d[key]
GetItem(d, key) == d[CHOOSE i \in DOMAIN d : d[i].k = key].v
\* d.get(key, default)
DictGet(d, key, default) == IF Has(d, key) THEN GetItem(d, key) ELSE default
\* del d[key]
Remove(d, key) == SelectSeq(d, LAMBDA e : e.k # key)
\* d[key] = val: an existing key keeps its place, a new one goes last
SetItem(d, key, val) ==
    IF Has(d, key)
    THEN [i \in DOMAIN d |-> IF d[i].k = key THEN Item(key, val) ELSE d[i]]
    ELSE Append(d, Item(key, val))
\* d[key] = d.pop(key, default)
PopSet(d, key, default) ==
    SetItem(Remove(d, key), key, DictGet(d, key, default))

\* d[k] = d.pop(k, default) for each <<k, default>> of defs, in order (the
\* keys of defs differ): the other items keep their order, then come the
\* keys of defs, each with its value in d or its default
PopSetAll(d, defs) ==
    SelectSeq(d, LAMBDA e : \A i \in DOMAIN defs : defs[i][1] # e.k)
    \o [i \in DOMAIN defs |->
            Item(defs[i][1], DictGet(d, defs[i][1], defs[i][2]))]

\* theta[i] of a numpy vector: a negative index counts from the end
InRange(vec, i) == -Len(vec) <= i /\ i < Len(vec)
PyIndex(vec, i) == IF i >= 0 THEN vec[i + 1] ELSE vec[Len(vec) + i + 1]

-----------------------------------------------------------------------------
(* The map: axes and arrays.                                               *)

xaxis == <<-2, 0, 2>>
yaxis == <<-2, 0, 2>>
nxpix == Len(xaxis)
nypix == Len(yaxis)
\* a pixel is <<row, column>>: data[j, i] lies at (xaxis[i], yaxis[j])
Pixels == (1..nypix) \X (1..nxpix)

SetMin(S) == CHOOSE m \in S : \A x \in S : m <= x
SetMax(S) == CHOOSE m \in S : \A x \in S : m >= x
FiniteData == {data[p].v : p \in {q \in Pixels : isfinite(data[q])}}
\* np.nanmin(self.data), np.nanmax(self.data)
nanmin_data == SetMin(FiniteData)
nanmax_data == SetMax(FiniteData)
\* max(self.xaxis)
max_xaxis == SetMax({xaxis[i] : i \in DOMAIN xaxis})

\* the values of a sequence of integers in ascending order
Sorted(s) == SortSeq(s, LAMBDA a, b : a < b)
\* np.median of a non-empty sequence: the middle value, or the mean of the
\* two middle values (rounded down to the fixed-point unit)
Median(s) ==
    LET o == Sorted(s)
        n == Len(o)
    IN  IF n % 2 = 1 THEN o[(n + 1) \div 2]
        ELSE (o[n \div 2] + o[(n \div 2) + 1]) \div 2
PixelSeq == [n \in 1..(nypix * nxpix) |->
                <<((n - 1) \div nxpix) + 1, ((n - 1) % nxpix) + 1>>]
\* the finite pixels' values, in pixel order
FiniteValues ==
    LET finite == SelectSeq(PixelSeq, LAMBDA p : isfinite(data[p]))
    IN  [n \in DOMAIN finite |-> data[finite[n]].v]
\* self.vlsr = np.nanmedian(self.data)
vlsr == Median(FiniteValues)

-----------------------------------------------------------------------------
(* The parameter dictionary.                                               *)

\* 1e10, the "no limit" default: larger than every radius of the map
E10 == 10000
\* np.pi, azimuths being counted in units of pi/4
pi == 4

Raise(e, d) == [err |-> e, val |-> d]
Return(d) == [err |-> "none", val |-> d]

\* x0, y0, dist, vlsr
BasicDefaults ==
    << <<"x0", FloatV(0)>>, <<"y0", FloatV(0)>>, <<"dist", FloatV(100)>>,
       <<"vlsr", FloatV(vlsr)>> >>

\* the defaults set after the rotation law, up to exclude_v; vp_q = -0.5,
\* psi = q_taper = vp_qtaper = 1.0 in tenths
OtherDefaults ==
    << <<"vp_q", FloatV(-5)>>, <<"vp_rtaper", FloatV(E10)>>,
       <<"vp_qtaper", FloatV(10)>>, <<"vr_100", FloatV(0)>>,
       <<"vr_q", FloatV(0)>>,
       <<"z0", FloatV(0)>>, <<"psi", FloatV(10)>>,
       <<"r_taper", FloatV(E10)>>, <<"q_taper", FloatV(10)>>,
       <<"r_cavity", FloatV(0)>>,
       <<"w_i", FloatV(0)>>, <<"w_r", FloatV(max_xaxis \div 2)>>,
       <<"w_t", FloatV(0)>>, <<"shadowed", BoolV(FALSE)>>,
       <<"r_min", FloatV(0)>>, <<"r_max", FloatV(E10)>>,
       <<"exclude_r", BoolV(FALSE)>>,
       <<"PA_min", FloatV(-pi)>>, <<"PA_max", FloatV(pi)>>,
       <<"exclude_PA", BoolV(FALSE)>>, <<"abs_PA", BoolV(FALSE)>>,
       <<"v_min", FloatV(nanmin_data)>>, <<"v_max", FloatV(nanmax_data)>>,
       <<"exclude_v", BoolV(FALSE)>> >>

\* the rotation law chosen from the keys present
vfunc(has_mstar) == IF has_mstar THEN proj_vkep ELSE proj_vpow

\* the rotation-law check: both laws given, or none
rotation_error_mut(has_mstar, has_vp_100) ==
    IF ~has_mstar /\ ~has_vp_100
    THEN "KeyError: Must provide either mstar or vp_100"
    ELSE "none"
rotation_error(has_mstar, has_vp_100) ==
    IF has_mstar /\ has_vp_100
    THEN "KeyError: Only provide either mstar or vp_100"
    ELSE IF ~has_mstar /\ ~has_vp_100
    THEN "KeyError: Must provide either mstar or vp_100"
    ELSE "none"

\* the inverted-bounds checks and the beam flag that end the verification
verify_bounds(p) ==
    IF GetItem(p, "r_min").v >= GetItem(p, "r_max").v
    THEN Raise("ValueError: r_max must be greater than r_min", p)
    ELSE IF GetItem(p, "PA_min").v >= GetItem(p, "PA_max").v
    THEN Raise("ValueError: PA_max must be great than PA_min", p)
    ELSE IF GetItem(p, "v_min").v >= GetItem(p, "v_max").v
    THEN Raise("ValueError: v_max must be greater than v_min", p)
    ELSE Return(SetItem(Remove(p, "beam"), "beam",
                        BoolV(DictGet(p, "beam", BoolV(FALSE)).v # 0)))

\* verify_params_dictionary(params): the dictionary completed, or the error
\* raised (with the dictionary as the call left it)
verify_params_dictionary(raw) ==
    LET p1 == PopSetAll(raw, BasicDefaults)
        has_vp_100 == DictGet(p1, "vp_100", NoneV) # NoneV
        has_mstar == DictGet(p1, "mstar", NoneV) # NoneV
        law == rotation_error(has_mstar, has_vp_100)
    IN  IF DictGet(p1, "inc", NoneV) = NoneV
        THEN Raise("KeyError: Must provide inc", p1)
        ELSE IF DictGet(p1, "PA", NoneV) = NoneV
        THEN Raise("KeyError: Must provide PA", p1)
        ELSE IF law # "none" THEN Raise(law, p1)
        ELSE verify_bounds(PopSetAll(SetItem(p1, "vfunc", vfunc(has_mstar)),
                                     OtherDefaults))

\* does _populate_dictionary substitute this entry?
is_index_mut(x) == IsInstanceInt(x)
is_index(x) == IsInstanceInt(x) /\ ~IsInstanceBool(x)

\* _populate_dictionary(theta, dictionary_in): a copy with every index
\* replaced by its element of theta, or the IndexError of theta[i]
_populate_dictionary(th, d) ==
    IF \E i \in DOMAIN d : is_index(d[i].v) /\ ~InRange(th, d[i].v.v)
    THEN Raise("IndexError", d)
    ELSE Return([i \in DOMAIN d |->
                    IF is_index(d[i].v)
                    THEN Item(d[i].k, FloatV(PyIndex(th, d[i].v.v)))
                    ELSE d[i]])

-----------------------------------------------------------------------------
(* Geometry (deprojection.py, rotationmap.disk_coords).                    *)
(*                                                                         *)
(* Position angles are multiples of 90 degrees and inclinations are 0,     *)
(* +-60 or +-90 degrees after normalisation, so that sines, cosines and    *)
(* 1/cos are exact.  A radius is kept as its square r2 (hypot(x, y)^2 = x^2 + y^2,   *)
(* exact); an azimuth is counted in units of pi/4 and resolved to the      *)
(* quadrant: the axes are 0, +-2 and 4, a direction inside a quadrant is   *)
(* the quadrant's middle, +-1 or +-3.  Comparing a radius with a bound b   *)
(* and an azimuth with a multiple of pi/2 is then exact.                   *)

\* np.cos(np.radians(a)), np.sin(np.radians(a)) for a multiple of 90
cosd(a) ==
    CASE a % 360 = 0 -> 1 [] a % 360 = 180 -> -1 [] a % 360 \in {90, 270} -> 0
sind(a) ==
    CASE a % 360 = 90 -> 1 [] a % 360 = 270 -> -1 [] a % 360 \in {0, 180} -> 0
\* 1 / np.cos(np.radians(90)) = 1 / 6.1e-17 = 1.6e16: beyond 1e10
sec90 == 15000
\* 1 / np.cos(np.radians(inc)) for inc a multiple of 60 or +-90
secd(inc) ==
    CASE inc = 0 -> 1 [] inc \in {-60, 60} -> 2 [] inc \in {-90, 90} -> sec90
      [] inc \in {120, 240} -> -2 [] inc = 180 -> -1

\* rotate_coords(x, y, PA)
rotate_coords_mut(x, y, PA) ==
    [x |-> x * cosd(PA) + y * sind(PA), y |-> y * cosd(PA) - x * sind(PA)]
rotate_coords(x, y, PA) ==
    [x |-> y * cosd(PA) + x * sind(PA), y |-> x * cosd(PA) - y * sind(PA)]

\* deproject_coords(x, y, inc): x, y / cos(inc)
deproject_coords(x, y, inc) == [x |-> x, y |-> y * secd(inc)]

\* get_cart_sky_coords: np.meshgrid(xaxis - x0, yaxis - y0) at pixel p
get_cart_sky_coords_mut(x0, y0, p) == [x |-> xaxis[p[2]], y |-> yaxis[p[1]]]
get_cart_sky_coords(x0, y0, p) == [x |-> xaxis[p[2]] - x0, y |-> yaxis[p[1]] - y0]

\* get_midplane_cart_coords at pixel p
get_midplane_cart_coords(x0, y0, inc, PA, p) ==
    LET sky == get_cart_sky_coords(x0, y0, p)
        rot == rotate_coords(sky.x, sky.y, PA)
    IN  deproject_coords(rot.x, rot.y, inc)

\* np.hypot(x, y), squared
hypot2(x, y) == x * x + y * y
\* np.arctan2(y, x) in units of pi/4, resolved to the quadrant
arctan2(y, x) ==
    IF y = 0 THEN (IF x >= 0 THEN 0 ELSE 4)
    ELSE IF y > 0 THEN (IF x > 0 THEN 1 ELSE IF x = 0 THEN 2 ELSE 3)
    ELSE (IF x > 0 THEN -1 ELSE IF x = 0 THEN -2 ELSE -3)

\* np.hypot(x, y) squared and np.arctan2(y, x) for y finite or nan
hypot2_of(x, y) == IF isfinite(y) THEN Fin(hypot2(x, y.v)) ELSE NaN
arctan2_of(y, x) == IF isfinite(y) THEN Fin(arctan2(y.v, x)) ELSE NaN

\* r = np.maximum(r_in - r_cavity, 0.0) is 0, r_in given by its square
r_is_zero(r2, g) == g.r_cavity >= 0 /\ r2 <= g.r_cavity * g.r_cavity

\* z_func(r_in, z0, r_cavity, r_taper, psi, q_taper), r_in given by its
\* square (finite or nan):
\*   np.maximum(z0 * np.power(r, psi) * np.exp(-np.power(r / r_taper, q_taper)), 0)
\* z0 = 0 gives 0 unless np.power(0, psi) is inf (psi < 0), when 0 * inf is
\* nan.  For z0 > 0 the surfaces are those without cavity and taper
\* (r_taper = 1e10) with psi = 0 (r^0 = 1) or psi = 2 (r^2, psi being
\* counted in tenths).
z_func(r2, g) ==
    CASE ~isfinite(r2) -> NaN
      [] g.r_taper > 0 /\ g.z0 = 0 /\ (g.psi >= 0 \/ ~r_is_zero(r2.v, g)) -> Fin(0)
      [] g.r_taper > 0 /\ g.z0 = 0 -> NaN
      [] g.r_taper = E10 /\ g.z0 > 0 /\ g.r_cavity = 0 /\ g.psi = 0 -> Fin(g.z0)
      [] g.r_taper = E10 /\ g.z0 > 0 /\ g.r_cavity = 0 /\ g.psi = 20 -> Fin(g.z0 * r2.v)

\* w_func(r_in, t, r_cavity, w_r, w_i, w_t):
\*   r * np.tan(np.radians(w_i) * np.exp(-0.5 * (r / w_r)**2) * np.sin(t - np.radians(w_t)))
\* 0 without warp (w_i = 0) and where r = 0.  The warp of these
\* specifications is w_i = 45 with w_r = 1e10 and w_t = 0, taken on the
\* axes: tan(pi/4 * sin(t)) is 0 at t = 0 and pi, 1 at pi/2, -1 at -pi/2.
w_func(r2, t, g) ==
    CASE ~isfinite(r2) -> NaN
      [] g.w_r # 0 /\ (g.w_i = 0 \/ r_is_zero(r2.v, g)) -> Fin(0)
      [] g.w_r = E10 /\ g.w_i = 45 /\ g.w_t = 0 /\ g.r_cavity = 0 /\ t.v \in {0, 4} -> Fin(0)
      [] g.w_r = E10 /\ g.w_i = 45 /\ g.w_t = 0 /\ g.r_cavity = 0 /\ t.v \in {-2, 2} ->
            Fin((t.v \div 2) * (CHOOSE r \in 0..r2.v : r * r = r2.v))

\* z_tmp * np.tan(np.radians(inc)): tan(0) = 0 (and inf * 0 is nan),
\* tan(+-45) = +-1, and 0 * tan(inc) = 0 as tan is finite in floating point
z_tan_mut(z_tmp, inc) ==
    CASE z_tmp = NaN -> NaN
      [] isfinite(z_tmp) /\ inc = 0 -> Fin(1)
      [] isfinite(z_tmp) -> Fin(0)
z_tan(z_tmp, inc) ==
    CASE z_tmp = NaN -> NaN
      [] inc = 0 -> IF isfinite(z_tmp) THEN Fin(0) ELSE NaN
      [] z_tmp = Fin(0) -> Fin(0)
      [] isfinite(z_tmp) /\ inc = 45 -> z_tmp
      [] isfinite(z_tmp) /\ inc = -45 -> Fin(-z_tmp.v)

\* one round of the loop of _get_flared_coords: the next y_tmp
flared_step(x_mid, y_mid, y_tmp, inc, g) ==
    LET r_tmp == hypot2_of(x_mid, y_tmp)
        z_tmp == add(z_func(r_tmp, g), w_func(r_tmp, arctan2_of(y_tmp, x_mid), g))
    IN  add(Fin(y_mid), z_tan(z_tmp, inc))

RECURSIVE flared_iter(_, _, _, _, _, _)
\* the loop of _get_flared_coords: n more rounds from the current y_tmp
flared_iter(x_mid, y_mid, y_tmp, inc, g, n) ==
    IF n = 0 THEN y_tmp
    ELSE CHOOSE last \in {flared_iter(x_mid, y_mid, flared_step(x_mid, y_mid, y, inc, g),
                                      inc, g, n - 1) : y \in {y_tmp}} : TRUE

\* rotationmap.disk_coords_niter
disk_coords_niter == 5

\* _get_flared_coords(x_mid, y_mid, inc, ..., niter): (r, t, z) with r
\* squared and z finite or nan; r and t are nan together (nan is set),
\* (x, y) is the direction whose azimuth t is
_get_flared_coords(x_mid, y_mid, inc, g, niter) ==
    LET y_tmp == flared_iter(x_mid, y_mid, Fin(y_mid), inc, g, niter)
    IN  IF isfinite(y_tmp)
        THEN [r2 |-> hypot2(x_mid, y_tmp.v), t |-> arctan2(y_tmp.v, x_mid),
              z |-> z_func(Fin(hypot2(x_mid, y_tmp.v)), g),
              x |-> x_mid, y |-> y_tmp.v, nan |-> FALSE]
        ELSE [r2 |-> 0, t |-> 0, z |-> NaN, x |-> x_mid, y |-> 0, nan |-> TRUE]

\* get_flared_coords at pixel p
get_flared_coords(x0, y0, inc, PA, g, niter, p) ==
    LET mid == get_midplane_cart_coords(x0, y0, inc, PA, p)
    IN  _get_flared_coords(mid.x, mid.y, inc, g, niter)

\* the surface and warp arguments of disk_coords
SurfaceKeys == {"z0", "psi", "r_cavity", "r_taper", "q_taper", "w_i", "w_r", "w_t"}

\* the inclination convention of disk_coords
inc_convention_mut(inc) == IF inc <= 90 THEN inc ELSE inc - 180
inc_convention(inc) == IF inc < 90 THEN inc ELSE inc - 180

\* self.disk_coords(**params): pixel -> (r, t, z), or the NameError of the
\* shadowed branch, which names z_func and w_func that fit_cube.py
\* neither defines nor imports
disk_coords_error_mut == "none"
disk_coords_error ==
    IF shadowed THEN "NameError: name 'z_func' is not defined" ELSE "none"
\* the value of the non-shadowed branch at pixel px
disk_coords_at(p, px) ==
    get_flared_coords(GetItem(p, "x0").v, GetItem(p, "y0").v,
                      inc_convention(GetItem(p, "inc").v), GetItem(p, "PA").v,
                      [k \in SurfaceKeys |-> GetItem(p, k).v],
                      disk_coords_niter, px)
disk_coords(p) ==
    IF disk_coords_error # "none" THEN Raise(disk_coords_error, <<>>)
    ELSE Return([px \in Pixels |-> disk_coords_at(p, px)])

-----------------------------------------------------------------------------
(* The inverse-variance mask (rotationmap._calc_ivar).                     *)

\* bool(x) of a flag
Truthy(x) == x.t # "none" /\ x.v # 0

\* r >= b and r <= b for the radius whose square is r2
r_ge(r2, b) == b <= 0 \/ r2 >= b * b
r_le(r2, b) == b >= 0 /\ r2 <= b * b

\* a >= b, a <= b where a is a pixel of self.data: False on nan
data_ge(a, b) == isfinite(a) /\ a.v >= b
data_le(a, b) == isfinite(a) /\ a.v <= b

\* mask = ~mask if exclude else mask
invert_if_mut(exclude, m) == m
invert_if(exclude, m) == IF Truthy(exclude) THEN ~m ELSE m

\* t = abs(t) if params['abs_PA'] else t
abs_if(flag, t) == IF Truthy(flag) /\ t < 0 THEN -t ELSE t

mask_r(p, c) ==
    invert_if(GetItem(p, "exclude_r"),
              /\ ~c.nan
              /\ r_ge(c.r2, GetItem(p, "r_min").v) /\ r_le(c.r2, GetItem(p, "r_max").v))
mask_t(p, c) ==
    LET t == abs_if(GetItem(p, "abs_PA"), c.t)
    IN  invert_if(GetItem(p, "exclude_PA"),
                  ~c.nan /\ t >= GetItem(p, "PA_min").v /\ t <= GetItem(p, "PA_max").v)
mask_f(px) == isfinite(data[px]) /\ error[px] > 0
mask_v(p, px) ==
    invert_if(GetItem(p, "exclude_v"),
              data_ge(data[px], GetItem(p, "v_min").v)
              /\ data_le(data[px], GetItem(p, "v_max").v))

\* np.power(self.error, -2.0), in quarters: 1/sigma^2 is 4 for sigma = 1
power_m2(e) == 4 \div (e * e)

\* the combination of the four masks
combine_mut(v, f, r, t) == v /\ f /\ r
combine(v, f, r, t) == (v /\ f) /\ (r /\ t)

\* self._calc_ivar(params): the weights, with the four masks the call built
_calc_ivar(p) ==
    IF disk_coords_error # "none" THEN disk_coords(p)
    ELSE LET m(px) == [r |-> mask_r(p, disk_coords_at(p, px)),
                       t |-> mask_t(p, disk_coords_at(p, px)),
                       f |-> mask_f(px), v |-> mask_v(p, px)]
         IN  Return([ivar |-> [px \in Pixels |->
                                 IF combine(mask_v(p, px), mask_f(px),
                                            mask_r(p, disk_coords_at(p, px)),
                                            mask_t(p, disk_coords_at(p, px)))
                                 THEN power_m2(error[px]) ELSE 0],
                     mask |-> [px \in Pixels |-> m(px)]])

-----------------------------------------------------------------------------
(* Priors (set_prior, _set_default_priors, _ln_prior).                     *)
(*                                                                         *)
(* The registry rotationmap.priors maps a parameter name to the closure    *)
(* set_prior built, kept as the record of what the closure captured:       *)
(* [type, args] with args = <<args[0], args[1]>>.  A log density is an     *)
(* extended real in thousandths.  Stellar mass, the surface and taper      *)
(* exponents are counted in tenths, every other parameter in its own unit. *)

\* 1e30, the upper bound of the taper and cavity priors: beyond every value
E30 == 1000000

Tenths == {"mstar", "z0", "psi", "q_taper", "vp_q", "vp_qtaper", "vr_q"}
\* how many fixed-point units of parameter key make 1.0
unit(key) == IF key \in Tenths THEN 10 ELSE 1

RECURSIVE ilog2(_)
\* floor(log2(n)) for n >= 1
ilog2(n) == IF n < 2 THEN 0 ELSE 1 + ilog2(n \div 2)

\* ln(m / 1000) in thousandths for 1000 <= m < 2000, by the series of
\* 2 atanh((x - 1) / (x + 1))
ln_mantissa(m) ==
    LET y == ((m - 1000) * 1000) \div (m + 1000)
        y2 == (y * y) \div 1000
        t3 == (y * y2) \div 1000
        t5 == (t3 * y2) \div 1000
    IN  2 * (y + (t3 \div 3) + (t5 \div 5))

\* ln(n) in thousandths for an integer n >= 1
ln_milli(n) ==
    LET e == ilog2(n)
    IN  ((e * 693147) \div 1000) + ln_mantissa((n * 1000) \div (2 ^ e))

\* np.log(num / den) for den # 0: nan below zero, -inf at zero
np_log(num, den) ==
    IF (num < 0 /\ den > 0) \/ (num > 0 /\ den < 0) THEN NaN
    ELSE IF num = 0 THEN NegInf
    ELSE Fin(ln_milli(IF num < 0 THEN -num ELSE num)
             - ln_milli(IF den < 0 THEN -den ELSE den))

min(args) == IF args[1] <= args[2] THEN args[1] ELSE args[2]
max(args) == IF args[1] >= args[2] THEN args[1] ELSE args[2]

\* min(args) <= p <= max(args)
in_support_mut(args, p) == min(args) < p /\ p < max(args)
in_support(args, p) == min(args) <= p /\ p <= max(args)

\* the closure of a flat prior, called with the value p of parameter key
flat_prior(key, args, p) ==
    IF p = NoneV
    THEN Raise("TypeError: '<=' not supported between float and NoneType", NaN)
    ELSE IF ~in_support(args, p.v) THEN Return(NegInf)
    ELSE IF args[2] - args[1] = 0
    THEN Raise("ZeroDivisionError: float division by zero", NaN)
    ELSE Return(np_log(unit(key), args[2] - args[1]))

\* 745: np.exp(-x) is 0.0 for x above 745
exp_underflow == 745
\* ln(sqrt(2 pi)) in thousandths
ln_sqrt_2pi == 919

\* the closure of a gaussian prior with args = [mu, sig]
gaussian_prior(key, args, p) ==
    IF p = NoneV
    THEN Raise("TypeError: unsupported operand type(s) for -: float and NoneType", NaN)
    ELSE IF args[2] = 0
    THEN Raise("ZeroDivisionError: float division by zero", NaN)
    ELSE LET \* (args[0] - p) / args[1] in thousandths
             z == ((args[1] - p.v) * 1000) \div args[2]
             \* 0.5 * z**2 in thousandths, or beyond the underflow of np.exp
             half_z2 == IF z > 40000 \/ z < -40000 THEN exp_underflow * 1000 + 1
                        ELSE (z * z) \div 2000
         IN  IF half_z2 > exp_underflow * 1000 THEN Return(NegInf)
             ELSE IF args[2] < 0 THEN Return(NaN)
             ELSE Return(Fin(ln_milli(unit(key)) - half_z2 - ln_sqrt_2pi
                             - ln_milli(args[2])))

\* rotationmap.priors[key](p)
prior(key, entry, p) ==
    IF entry.type = "flat" THEN flat_prior(key, entry.args, p)
    ELSE gaussian_prior(key, entry.args, p)

\* type.lower()
lower(type) == CASE type = "Flat" -> "flat" [] OTHER -> type

\* set_prior(param, args, type) on the registry reg: the registry after the
\* call, or the ValueError
set_prior(reg, param, args, type) ==
    IF lower(type) \notin {"flat", "gaussian"}
    THEN Raise("ValueError: type must be 'flat' or 'gaussian'.", reg)
    ELSE Return([k \in DOMAIN reg \cup {param} |->
                    IF k = param THEN [type |-> lower(type), args |-> args]
                    ELSE reg[k]])

\* _set_default_priors: the entries the constructor installs
default_priors ==
    << <<"x0", <<-2, 2>> >>, <<"y0", <<-2, 2>> >>, <<"inc", <<-90, 90>> >>,
       <<"PA", <<-360, 360>> >>, <<"mstar", <<1, 50>> >>,
       <<"vlsr", <<nanmin_data * 1000, nanmax_data * 1000>> >>,
       <<"z0", <<0, 50>> >>, <<"psi", <<0, 50>> >>,
       <<"r_cavity", <<0, E30>> >>, <<"r_taper", <<0, E30>> >>,
       <<"q_taper", <<0, 50>> >>,
       <<"w_i", <<-90, 90>> >>, <<"w_r", <<0, max_xaxis>> >>,
       <<"w_t", <<-180, 180>> >>,
       <<"vp_100", <<0, 10000>> >>, <<"vp_q", <<-20, 0>> >>,
       <<"vp_rtaper", <<0, E30>> >>, <<"vp_qtaper", <<0, 50>> >>,
       <<"vr_100", <<-1000, 1000>> >>, <<"vr_q", <<-20, 20>> >> >>

\* the registry after _set_default_priors, whatever it held for other names
_set_default_priors_mut(reg) ==
    LET names == {default_priors[i][1] : i \in DOMAIN default_priors}
        of(k) == default_priors[CHOOSE i \in DOMAIN default_priors :
                                    default_priors[i][1] = k][2]
    IN  [k \in DOMAIN reg \cup names |->
            IF k \in DOMAIN reg THEN reg[k] ELSE [type |-> "flat", args |-> of(k)]]
_set_default_priors(reg) ==
    LET names == {default_priors[i][1] : i \in DOMAIN default_priors}
        of(k) == default_priors[CHOOSE i \in DOMAIN default_priors :
                                    default_priors[i][1] = k][2]
    IN  [k \in DOMAIN reg \cup names |->
            IF k \in names THEN [type |-> "flat", args |-> of(k)] ELSE reg[k]]

\* where the loop of _ln_prior ends: at the first key whose term stops it,
\* or after the last of the n keys
loop_end_mut(stops, n) == n
loop_end(stops, n) == IF stops = {} THEN n ELSE SetMin(stops)

\* self._ln_prior(params) with the registry reg: the loop over the keys of
\* params in their order, left at the first key whose term makes lnp
\* non-finite (or raises).  evaluated lists the keys whose prior was called.
_ln_prior(reg, d) ==
    LET has(i) == d[i].k \in DOMAIN reg
        term(i) == IF has(i) THEN prior(d[i].k, reg[d[i].k], d[i].v)
                   ELSE Return(Fin(0))
        stop(i) == term(i).err # "none" \/ ~isfinite(term(i).val)
        stops == {i \in DOMAIN d : stop(i)}
        last == loop_end(stops, Len(d))
        \* lnp after the first i keys, all of their terms being finite
        RECURSIVE sum(_)
        sum(i) == IF i = 0 THEN 0 ELSE term(i).val.v + sum(i - 1)
        lnp == IF stops = {} THEN Fin(sum(last))
               ELSE add(Fin(sum(last - 1)), term(last).val)
        called == SelectSeq([i \in 1..last |-> i], has)
    IN  [err |-> IF stops = {} THEN "none" ELSE term(last).err,
         val |-> lnp,
         evaluated |-> [n \in DOMAIN called |-> d[called[n]].k]]

-----------------------------------------------------------------------------
(* The velocity model and the log-probability (models.py, vphi,            *)
(* _make_model, _ln_likelihood, _ln_probability).  Velocities of the model *)
(* are in m/s, the map is in km/s; a squared residual is in (m/s)^2.       *)

\* self.mask = np.isfinite(self.data)
mask == [px \in Pixels |-> isfinite(data[px])]

RECURSIVE isqrt_between(_, _, _)
\* the largest s in lo..hi with s * s <= n
isqrt_between(n, lo, hi) ==
    IF lo >= hi THEN lo
    ELSE LET mid == (lo + hi + 1) \div 2
         IN  IF mid * mid <= n THEN isqrt_between(n, mid, hi)
             ELSE isqrt_between(n, lo, mid - 1)
\* np.sqrt(n), rounded down
sqrt(n) == isqrt_between(n, 0, 46340)

\* G * msun / au / 1000, in (m/s)^2 au / msun
G_msun_au == 886900

\* abs(np.sin(np.radians(inc))) in thousandths, for a multiple of 30
abs_sin(inc) ==
    CASE inc % 180 = 0 -> 0
      [] inc % 180 \in {30, 150} -> 500
      [] inc % 180 \in {60, 120} -> 866
      [] inc % 180 = 90 -> 1000

\* proj_vphi(v_phi, tvals, inc) at one pixel: cos(t) is x / r for the
\* direction (x, y) of the azimuth
proj_vphi(v_phi, c, inc) ==
    (((v_phi * ((c.x * 1000) \div sqrt(c.r2 * 10000))) \div 10) * abs_sin(inc))
        \div 1000

\* mod.proj_vkep at one pixel of a flat surface (z = 0): at r = 0 the
\* product 0 * np.power(0, -3) is nan; at the radii an edge-on disk is
\* deprojected to (1.6e16 arcsec and more) the speed is below 1e-4 m/s, 0
\* in the unit of the model
proj_vkep_at(c, dist, mstar, inc) ==
    CASE c.z = Fin(0) /\ ~c.nan ->
        IF c.r2 = 0 THEN NaN
        ELSE IF c.r2 >= sec90 * sec90 THEN Fin(0)
        ELSE LET r100 == sqrt(c.r2 * 10000)
                 v2 == ((((G_msun_au * mstar) \div r100) * 100) \div dist) * 100
             IN  Fin(proj_vphi(sqrt(v2), c, inc))

\* the error self.vphi(params) raises, if any.  The power-law branch reads
\* params['mstar'] and calls mod.proj_vpow, whose body names vr_q and vr_100
\* that are neither arguments nor globals.
vphi_error(p) ==
    IF disk_coords_error # "none" THEN disk_coords_error
    ELSE IF GetItem(p, "vfunc") = proj_vkep THEN "none"
    ELSE IF ~Has(p, "mstar") THEN "KeyError: 'mstar'"
    ELSE "NameError: name 'vr_q' is not defined"
\* v_phi + params['vlsr'] at pixel px, for the Keplerian law
vphi_at(p, px) ==
    add(proj_vkep_at(disk_coords_at(p, px), GetItem(p, "dist").v,
                     GetItem(p, "mstar").v, GetItem(p, "inc").v),
        Fin(GetItem(p, "vlsr").v))
\* self.vphi(params): pixel -> velocity, or the error raised
vphi(p) ==
    IF vphi_error(p) # "none" THEN Raise(vphi_error(p), <<>>)
    ELSE Return([px \in Pixels |-> vphi_at(p, px)])

\* self._make_model(params), for a dictionary without beam convolution
_make_model(p) == CASE ~Truthy(GetItem(p, "beam")) -> vphi(p)
\* its error and its value at pixel px
_make_model_error(p) == CASE ~Truthy(GetItem(p, "beam")) -> vphi_error(p)
_make_model_at(p, px) == CASE ~Truthy(GetItem(p, "beam")) -> vphi_at(p, px)

\* np.power(self.data - model * 1e-3, 2) at one pixel, in (m/s)^2
residual2(d, m) ==
    IF isfinite(d) /\ isfinite(m)
    THEN Fin(((d.v * 1000) - m.v) * ((d.v * 1000) - m.v))
    ELSE NaN

\* lnx2 if np.isfinite(lnx2) else -np.inf
finite_or_neginf(x) == IF isfinite(x) THEN x ELSE NegInf

\* self._ln_likelihood(params): -0.5 * np.sum(np.where(self.mask, ..., 0.0))
\* in thousandths, or the error raised
_ln_likelihood(p) ==
    IF _make_model_error(p) # "none" THEN Raise(_make_model_error(p), NaN)
    ELSE LET lnx2(n) == IF mask[PixelSeq[n]]
                        THEN residual2(data[PixelSeq[n]],
                                       _make_model_at(p, PixelSeq[n]))
                        ELSE Fin(0)
             \* np.sum over the first n pixels, all of them finite
             RECURSIVE sum(_)
             sum(n) == IF n = 0 THEN 0 ELSE lnx2(n).v + sum(n - 1)
             lnx2_sum == IF \E n \in DOMAIN PixelSeq : ~isfinite(lnx2(n)) THEN NaN
                         ELSE Fin(-(sum(Len(PixelSeq)) \div 2000))
         IN  Return(finite_or_neginf(lnx2_sum))

\* if np.isfinite(lnp): the likelihood is added
accepts_mut(lnp) == lnp # NegInf
accepts(lnp) == isfinite(lnp)

\* self._ln_probability(theta, params) with the registry reg: the value (or
\* the error raised), the keys whose prior was called, and whether
\* _ln_likelihood was called
_ln_probability_mut(reg, th, d) ==
    LET model == _populate_dictionary(th, d)
        free(it) == \E i \in DOMAIN d : d[i].k = it.k /\ is_index(d[i].v)
        lnp == _ln_prior(reg, SelectSeq(model.val, free))
        lnl == _ln_likelihood(model.val)
    IN  IF model.err # "none"
        THEN [err |-> model.err, val |-> NaN, evaluated |-> <<>>,
              likelihood |-> FALSE]
        ELSE IF lnp.err # "none"
        THEN [err |-> lnp.err, val |-> NaN, evaluated |-> lnp.evaluated,
              likelihood |-> FALSE]
        ELSE IF accepts(lnp.val)
        THEN [err |-> lnl.err, val |-> add(lnp.val, lnl.val),
              evaluated |-> lnp.evaluated, likelihood |-> TRUE]
        ELSE [err |-> "none", val |-> NegInf, evaluated |-> lnp.evaluated,
              likelihood |-> FALSE]
_ln_probability(reg, th, d) ==
    LET model == _populate_dictionary(th, d)
        lnp == _ln_prior(reg, model.val)
        lnl == _ln_likelihood(model.val)
    IN  IF model.err # "none"
        THEN [err |-> model.err, val |-> NaN, evaluated |-> <<>>,
              likelihood |-> FALSE]
        ELSE IF lnp.err # "none"
        THEN [err |-> lnp.err, val |-> NaN, evaluated |-> lnp.evaluated,
              likelihood |-> FALSE]
        ELSE IF accepts(lnp.val)
        THEN [err |-> lnl.err, val |-> add(lnp.val, lnl.val),
              evaluated |-> lnp.evaluated, likelihood |-> TRUE]
        ELSE [err |-> "none", val |-> NegInf, evaluated |-> lnp.evaluated,
              likelihood |-> FALSE]

-----------------------------------------------------------------------------
(* Inputs.                                                                 *)

\* longest free-parameter vector tried
MaxTheta == 3
\* largest niter tried
MaxIter == 2
\* the largest iteration count given to the surface solver
MaxNiter == 3

\* a velocity map with a gradient along x around 5 km/s, nan on nanpix
VelocityMap(nanpix, grad) ==
    [p \in Pixels |-> IF p \in nanpix THEN NaN
                      ELSE Fin(5 + grad * xaxis[p[2]])]
\* an uncertainty map: sig everywhere, 0.0 on zeropix
ErrorMap(zeropix, sig) == [p \in Pixels |-> IF p \in zeropix THEN 0 ELSE sig]

\* the vector <<11, 12, ...>> of length n: every element differs
ThetaOf(n) == [i \in 1..n |-> 10 + i]

Absent == [t |-> "absent", v |-> 0]
Entry(key, c) == IF c = Absent THEN <<>> ELSE <<Item(key, c)>>

\* parameter dictionaries as a caller writes them: keys left out, None,
\* fixed values, indices into theta (one of them negative), flags
ParamSpecs ==
    { Entry("inc", a) \o Entry("PA", b) \o Entry("mstar", c)
        \o Entry("vp_100", d) \o Entry("r_min", e) \o Entry("exclude_r", f)
      : a \in {Absent, NoneV, FloatV(30), IntV(0)},
        b \in {Absent, FloatV(90), IntV(1)},
        c \in {Absent, NoneV, FloatV(10), IntV(2), IntV(-1)},
        d \in {Absent, NoneV, FloatV(200), IntV(2)},
        e \in {Absent, FloatV(E10)},
        f \in {Absent, BoolV(TRUE)} }

NoCall == [op |-> "none", arg |-> <<>>, theta |-> <<>>, err |-> "none",
           val |-> <<>>]
Called(name, d, th, out) ==
    [op |-> name, arg |-> d, theta |-> th, err |-> out.err, val |-> out.val]

-----------------------------------------------------------------------------
(* fit_map and its helpers (_get_labels, _optimize_p0, _run_mcmc).         *)
(*                                                                         *)
(* scipy.optimize.minimize and the emcee sampler are outside the           *)
(* repository: what they return is chosen among a few outcomes.  Both call *)
(* self._ln_probability, so an error it raises leaves fit_map.             *)

\* an event of the trace: what fit_map did, and with which vector
Event(name, vec) == [ev |-> name, p0 |-> vec]

\* _get_labels(params): one label per integer entry that is not a bool
_get_labels(d) == SelectSeq(d, LAMBDA it : IsInstanceInt(it.v) /\ ~IsInstanceBool(it.v))

\* nburnin, nsteps of the calls made (fit_map's defaults are 300 and 100)
nburnin == 1
nsteps == 2

\* the j-th of the positions a walker can be at: <<mstar, vlsr, PA>> cut to
\* ndim parameters, all inside the default priors
Position(j, ndim) ==
    [i \in 1..ndim |-> CASE i = 1 -> 10 + j
                         [] i = 2 -> 5000 + (10 * j)
                         [] OTHER -> 90 - (180 * (j % 2))]

\* res.x of scipy.optimize.minimize started at x0: the best point it found,
\* which may be x0 itself
OptimizerPoints(x0) == {x0, Position(1, Len(x0))}

\* no call of scipy.optimize.minimize has returned
NoRes == [ran |-> FALSE, success |-> FALSE, x |-> <<>>]

\* _optimize_p0, lines 611-618: theta = res.x if res.success, else the
\* warning is printed and theta is returned as it was given
optimized_mut(r, th) == r.x
optimized(r, th) == IF r.success THEN r.x ELSE th

\* how far the walkers have moved on: an outcome of one sampling run
ChainShifts == {0, 3}

\* sampler.chain after run_mcmc(p0, nburnin + nsteps): walker -> step ->
\* position; every walker at every step at a different position
Chain(shift, walkers, ndim) ==
    [w \in 1..walkers |-> [s \in 1..(nburnin + nsteps) |->
        Position((((w - 1) * (nburnin + nsteps)) + (s - 1) + shift)
                     % (walkers * (nburnin + nsteps)), ndim)]]

\* x < y on log-probabilities (finite or -inf)
less(x, y) == (x = NegInf /\ y # NegInf) \/ (isfinite(x) /\ isfinite(y) /\ x.v < y.v)

\* np.argmin(s): the first position of the least element (from 1)
argmin(s) ==
    CHOOSE i \in DOMAIN s :
        /\ \A j \in DOMAIN s : ~less(s[j], s[i])
        /\ \A j \in DOMAIN s : j < i => less(s[i], s[j])

\* sampler.chain[:, -int(nsteps):].reshape(-1, ndim): walker after walker
flat_samples(chain) ==
    [n \in 1..(Len(chain) * nsteps) |->
        chain[((n - 1) \div nsteps) + 1][nburnin + ((n - 1) % nsteps) + 1]]

\* np.concatenate(sampler.lnprobability.T[nburnin:]): step after step
flat_lnprob(lnprobability) ==
    [n \in 1..(Len(lnprobability) * nsteps) |->
        lnprobability[((n - 1) % Len(lnprobability)) + 1]
                     [nburnin + ((n - 1) \div Len(lnprobability)) + 1]]

\* np.median(samples, axis=0)
median_axis0(flat) ==
    [i \in DOMAIN flat[1] |-> Median([n \in DOMAIN flat |-> flat[n][i]])]

\* column k (from 0, negative from the end) of an array of ndim columns
column(k, ndim) == IF k < 0 THEN ndim + k + 1 ELSE k + 1

\* sampler.chain[:, :, params_tmp['PA']] %= 360.0
wrap_PA_mut(chain, col) ==
    [w \in DOMAIN chain |-> [s \in DOMAIN chain[w] |->
        [i \in DOMAIN chain[w][s] |->
            IF i = col THEN chain[w][s][i] % 360 ELSE chain[w][s][i]]]]
wrap_PA(chain, col) ==
    [w \in DOMAIN chain |-> [s \in DOMAIN chain[w] |->
        [i \in DOMAIN chain[w][s] |->
            IF i = column(col, Len(chain[w][s]))
            THEN chain[w][s][i] % 360 ELSE chain[w][s][i]]]]

\* for n in range(int(niter)): another round?
loop_continues_mut(k, rounds) == k <= rounds
loop_continues(k, rounds) == k < rounds

\* np.percentile(samples, q, axis=0) for one column: linear interpolation
\* between the two nearest of the sorted values
percentile(col, q) ==
    LET o == Sorted(col)
        pos == q * (Len(o) - 1)
        lo == (pos \div 100) + 1
    IN  IF lo >= Len(o) THEN o[Len(o)]
        ELSE o[lo] + (((pos % 100) * (o[lo + 1] - o[lo])) \div 100)
percentiles(flat) ==
    [k \in 1..3 |-> [i \in DOMAIN flat[1] |->
        percentile([n \in DOMAIN flat |-> flat[n][i]], <<16, 50, 84>>[k])]]

\* np.percentile(col, q) for a q given in hundredths of a percent
np_percentile(col, q100) ==
    LET o == Sorted(col)
        pos == q100 * (Len(o) - 1)
        lo == (pos \div 10000) + 1
    IN  IF lo >= Len(o) THEN o[Len(o)]
        ELSE o[lo] + (((pos % 10000) * (o[lo + 1] - o[lo])) \div 10000)

\* nparam of evaluate_models: np.sum([isinstance(params[k], int) ...])
nparam(d) == Cardinality({i \in DOMAIN d : IsInstanceInt(d[i].v)})

\* tmp = np.percentile(samples, draws, axis=0) for a float draws, given in
\* hundredths: the number draws is handed over as a percentage
draws_point(smp, draws) ==
    [i \in DOMAIN smp[1] |-> np_percentile([n \in DOMAIN smp |-> smp[n][i]], draws)]

\* self.evaluate_models(samples, params, draws) for a float draws <= 1.0
\* (in hundredths) and coords_only = False: the model, or the error
\* raised; at is the vector written into the dictionary
evaluate_models(smp, d, draws) ==
    LET verified_params == verify_params_dictionary(d)
        tmp == _populate_dictionary(draws_point(smp, draws), verified_params.val)
        out == _make_model(tmp.val)
        raised(e) == [err |-> e, val |-> <<>>, at |-> <<>>]
    IN  IF Len(smp[1]) # nparam(d)
        THEN raised("ValueError: Invalid number of free parameters in 'samples'")
        ELSE IF verified_params.err # "none" THEN raised(verified_params.err)
        ELSE IF tmp.err # "none" THEN raised(tmp.err)
        ELSE [err |-> out.err, val |-> out.val, at |-> draws_point(smp, draws)]

\* the names fit_map looks for in returns, in the order it appends them
ReturnNames ==
    <<"samples", "sampler", "lnprob", "percentiles", "medians", "maxl", "dict",
      "model", "residual">>

\* the arguments of no call
NoFit == [optimize |-> FALSE, niter |-> 0, shadowed |-> FALSE,
          r_min |-> NoneV, r_max |-> NoneV]

\* no call of fit_map is going on
FitIdle ==
    /\ pc = "idle" /\ p0 = <<>> /\ res = NoRes /\ params_tmp = <<>>
    /\ ivar = <<>> /\ iter = 0 /\ sampler = <<>> /\ samples = <<>>
    /\ medians = <<>> /\ max_likelihood = <<>> /\ trace = <<>>


-----------------------------------------------------------------------------
(* SpecDict: verify_params_dictionary and _populate_dictionary called on   *)
(* every dictionary of ParamSpecs.                                         *)

InitDict ==
    /\ data = VelocityMap({}, 1)
    /\ error = ErrorMap({}, 1)
    /\ shadowed = FALSE
    /\ params \in ParamSpecs
    /\ theta \in {ThetaOf(n) : n \in 0..MaxTheta}
    /\ priors = _set_default_priors(<<>>)
    /\ ret = NoCall
    /\ FitIdle /\ call = NoFit

\* self.verify_params_dictionary(params): params itself is completed
CallVerify ==
    LET out == verify_params_dictionary(params)
    IN  /\ ret' = Called("verify", params, <<>>, out)
        /\ params' = out.val
        /\ UNCHANGED <<data, error, shadowed, theta, priors, fitvars>>

\* rotationmap._populate_dictionary(theta, params): params is copied
CallPopulate ==
    /\ ret' = Called("populate", params, theta,
                     _populate_dictionary(theta, params))
    /\ UNCHANGED <<data, error, shadowed, params, theta, priors, fitvars>>

NextDict == CallVerify \/ CallPopulate

SpecDict == InitDict /\ [][NextDict]_vars

\* key is present in d with a value that is not None
IsSet(d, key) == DictGet(d, key, NoneV) # NoneV

RotationErrors ==
    {"KeyError: Only provide either mstar or vp_100",
     "KeyError: Must provide either mstar or vp_100"}
KeyErrors ==
    RotationErrors \cup {"KeyError: Must provide inc",
                         "KeyError: Must provide PA"}

\* C1: verify_params_dictionary raises a KeyError when mstar and vp_100 are
\* both set or both unset (the rotation-law one when inc and PA are given);
\* with exactly one set it raises no rotation-law error and, inc and PA
\* given, vfunc is the Keplerian law iff mstar is the one set.
C1_RotationLaw ==
    ret.op = "verify" =>
        LET has_mstar == IsSet(ret.arg, "mstar")
            has_vp_100 == IsSet(ret.arg, "vp_100")
            geometry == IsSet(ret.arg, "inc") /\ IsSet(ret.arg, "PA")
        IN  /\ has_mstar = has_vp_100 =>
                /\ ret.err \in KeyErrors
                /\ geometry => ret.err \in RotationErrors
            /\ has_mstar # has_vp_100 =>
                /\ ret.err \notin RotationErrors
                /\ geometry =>
                     GetItem(ret.val, "vfunc") =
                        IF has_mstar THEN proj_vkep ELSE proj_vpow

\* a call with only vp_100 set that returned, the power law selected
C1_Witness ==
    /\ ret.op = "verify"
    /\ ret.err = "none"
    /\ IsSet(ret.arg, "vp_100") /\ ~IsSet(ret.arg, "mstar")
    /\ GetItem(ret.val, "vfunc") = proj_vpow

\* C2: the dictionary _populate_dictionary returns has the keys of its
\* argument, in order; an entry whose value is an int and not a bool is
\* theta[i], every other entry is the argument's.
C2_Populate ==
    (ret.op = "populate" /\ ret.err = "none") =>
        /\ Len(ret.val) = Len(ret.arg)
        /\ \A i \in DOMAIN ret.arg :
            /\ ret.val[i].k = ret.arg[i].k
            /\ ret.arg[i].v.t = "int" =>
                 ret.val[i].v = FloatV(PyIndex(ret.theta, ret.arg[i].v.v))
            /\ ret.arg[i].v.t # "int" => ret.val[i].v = ret.arg[i].v

\* a returned call that substituted an index and kept a boolean flag
C2_Witness ==
    /\ ret.op = "populate"
    /\ ret.err = "none"
    /\ \E i \in DOMAIN ret.arg : ret.arg[i].v.t = "int"
    /\ \E i \in DOMAIN ret.arg : ret.arg[i].v = BoolV(TRUE)

-----------------------------------------------------------------------------
(* SpecMask: dictionaries are verified and _calc_ivar is called on them,   *)
(* the caller flipping exclude flags and the shadowed attribute between    *)
(* calls.                                                                  *)

Range(key1, key2, c) ==
    <<Item(key1, FloatV(c[1])), Item(key2, FloatV(c[2]))>>

\* dictionaries with fixed values only: geometry, the absolute-angle flag
\* and the three mask ranges, either all left to their defaults or all set
MaskSpecs ==
    { <<Item("inc", FloatV(a)), Item("PA", FloatV(b)), Item("mstar", FloatV(10)),
        Item("x0", FloatV(c)), Item("abs_PA", BoolV(d))>>
        \o (IF e THEN Range("r_min", "r_max", <<1, 3>>)
                      \o Range("PA_min", "PA_max", <<0, 2>>)
                      \o Range("v_min", "v_max", <<4, 6>>)
            ELSE <<>>)
      : a \in {0, 120}, b \in {0, 90}, c \in {0, 2}, d \in BOOLEAN,
        e \in BOOLEAN }

ExcludeFlags == {"exclude_r", "exclude_PA", "exclude_v"}

InitMask ==
    /\ data = VelocityMap({<<1, 1>>}, 1)
    /\ error = ErrorMap({<<2, 3>>}, 2)
    /\ shadowed = FALSE
    /\ params \in MaskSpecs
    /\ theta = <<>>
    /\ priors = _set_default_priors(<<>>)
    /\ ret = NoCall
    /\ FitIdle /\ call = NoFit

\* params has been through verify_params_dictionary
Verified(d) == Has(d, "vfunc") /\ Has(d, "beam")

\* self._calc_ivar(params) on a verified dictionary
CallCalcIvar ==
    /\ Verified(params)
    /\ ret' = Called("calc_ivar", params, <<>>, _calc_ivar(params))
    /\ UNCHANGED <<data, error, shadowed, params, theta, priors, fitvars>>

\* params[flag] = not params[flag]
Flip(d, flag) == SetItem(d, flag, BoolV(~Truthy(GetItem(d, flag))))
FlipExclude ==
    \E flag \in ExcludeFlags :
        /\ Verified(params)
        /\ params' = Flip(params, flag)
        /\ ret' = NoCall
        /\ UNCHANGED <<data, error, shadowed, theta, priors, fitvars>>

\* rotationmap.shadowed = True / False
SetShadowed ==
    /\ shadowed' = ~shadowed
    /\ ret' = NoCall
    /\ UNCHANGED <<data, error, params, theta, priors, fitvars>>

NextMask == CallVerify \/ CallCalcIvar \/ FlipExclude \/ SetShadowed

SpecMask == InitMask /\ [][NextMask]_vars

AllPass(m) == m.r /\ m.t /\ m.v /\ m.f

\* C3: at every pixel the weight _calc_ivar returns is 1/uncertainty^2
\* where the radius, angle, velocity and finite-value masks all pass and
\* the uncertainty is positive, and 0 elsewhere; a nonzero weight implies
\* that all four masks pass.
C3_Weights ==
    (ret.op = "calc_ivar" /\ ret.err = "none") =>
        \A px \in Pixels :
            /\ ret.val.ivar[px] =
                 IF AllPass(ret.val.mask[px]) /\ error[px] > 0
                 THEN 4 \div (error[px] * error[px]) ELSE 0
            /\ ret.val.ivar[px] # 0 => AllPass(ret.val.mask[px])

\* a returned call with a weighted pixel, a pixel only the angle mask
\* rejects and a pixel only its zero uncertainty rejects
C3_Witness ==
    /\ ret.op = "calc_ivar" /\ ret.err = "none"
    /\ \E px \in Pixels : ret.val.ivar[px] # 0
    /\ \E px \in Pixels :
         LET m == ret.val.mask[px] IN m.r /\ m.v /\ m.f /\ ~m.t
    /\ \E px \in Pixels :
         LET m == ret.val.mask[px]
         IN  m.r /\ m.v /\ m.t /\ ~m.f /\ isfinite(data[px]) /\ error[px] = 0

\* the sub-mask an exclude flag inverts
SubMask(flag) ==
    CASE flag = "exclude_r" -> "r" [] flag = "exclude_PA" -> "t"
      [] flag = "exclude_v" -> "v"

\* C4: with one exclude flag flipped and nothing else changed, _calc_ivar
\* builds for that flag the complement of the sub-mask it built before,
\* and the same three other sub-masks.
C4_FlipInverts ==
    (ret.op = "calc_ivar" /\ ret.err = "none") =>
        \A flag \in ExcludeFlags :
            LET again == _calc_ivar(Flip(ret.arg, flag))
            IN  /\ again.err = "none"
                /\ \A px \in Pixels : \A s \in {"r", "t", "v", "f"} :
                     again.val.mask[px][s] =
                        IF s = SubMask(flag) THEN ~ret.val.mask[px][s]
                        ELSE ret.val.mask[px][s]

\* a call made after exclude_r was set, whose radius mask passes some
\* pixels and fails others
C4_Witness ==
    /\ ret.op = "calc_ivar" /\ ret.err = "none"
    /\ Truthy(GetItem(ret.arg, "exclude_r"))
    /\ \E px \in Pixels : ret.val.mask[px].r
    /\ \E px \in Pixels : ~ret.val.mask[px].r

-----------------------------------------------------------------------------
(* SpecProb: the registry is changed with set_prior, dictionaries are      *)
(* verified, and _ln_prior, _ln_likelihood and _ln_probability are called  *)
(* on them with free-parameter vectors inside and outside the priors.      *)

\* dictionaries with a fixed inclination inside (60) or outside (120) the
\* default prior, a Keplerian (free or fixed mass) or power-law rotation
\* law, the systemic velocity free or left to its default, and the centre
\* on a pixel (0) or between pixels (1)
ProbSpecs ==
    { <<Item("inc", FloatV(a)), Item("PA", FloatV(90))>> \o law
        \o Entry("vlsr", v) \o <<Item("x0", FloatV(x)), Item("y0", FloatV(x))>>
      : a \in {60, 120},
        law \in {<<Item("mstar", IntV(0))>>, <<Item("mstar", FloatV(10))>>,
                 <<Item("vp_100", FloatV(200))>>},
        v \in {Absent, IntV(1)},
        x \in {0, 1} }

\* free-parameter vectors <<mstar, vlsr>>: 1.0 msun or 6.0 msun (outside
\* the prior), 5 km/s or 9 km/s (outside the prior)
ProbThetas == {<<10, 5000>>, <<60, 5000>>, <<10, 9000>>}

\* the set_prior calls tried: a wider flat prior, one with its bounds
\* reversed, a gaussian prior and an unknown type
PriorCalls ==
    { <<"inc", <<0, 180>>, "Flat">>, <<"inc", <<90, -90>>, "flat">>,
      <<"vlsr", <<5000, 1000>>, "gaussian">>, <<"PA", <<0, 360>>, "uniform">> }

InitProb ==
    /\ data = VelocityMap({}, 1)
    /\ error = ErrorMap({}, 1)
    /\ shadowed = FALSE
    /\ params \in ProbSpecs
    /\ theta \in ProbThetas
    /\ priors = _set_default_priors(<<>>)
    /\ ret = NoCall
    /\ FitIdle /\ call = NoFit

\* self.set_prior(param, args, type)
SetPrior ==
    \E c \in PriorCalls :
        LET out == set_prior(priors, c[1], c[2], c[3])
        IN  /\ priors' = out.val
            /\ ret' = [op |-> "set_prior", arg |-> c, theta |-> <<>>,
                       err |-> out.err, val |-> <<>>]
            /\ UNCHANGED <<data, error, shadowed, params, theta, fitvars>>

\* self._ln_prior(model) on the populated dictionary
CallLnPrior ==
    LET model == _populate_dictionary(theta, params)
        out == _ln_prior(priors, model.val)
    IN  /\ Verified(params)
        /\ model.err = "none"
        /\ ret' = Called("_ln_prior", model.val, theta,
                         [err |-> out.err, val |-> out])
        /\ UNCHANGED <<data, error, shadowed, params, theta, priors, fitvars>>

\* self._ln_likelihood(model) on the populated dictionary
CallLnLikelihood ==
    LET model == _populate_dictionary(theta, params)
        out == _ln_likelihood(model.val)
    IN  /\ Verified(params)
        /\ model.err = "none"
        /\ ret' = Called("_ln_likelihood", model.val, theta,
                         [err |-> out.err, val |-> out])
        /\ UNCHANGED <<data, error, shadowed, params, theta, priors, fitvars>>

\* self._ln_probability(theta, params)
CallLnProbability ==
    LET out == _ln_probability(priors, theta, params)
    IN  /\ Verified(params)
        /\ ret' = Called("_ln_probability", params, theta,
                         [err |-> out.err, val |-> out])
        /\ UNCHANGED <<data, error, shadowed, params, theta, priors, fitvars>>

NextProb ==
    CallVerify \/ SetPrior \/ CallLnPrior \/ CallLnLikelihood
        \/ CallLnProbability

SpecProb == InitProb /\ [][NextProb]_vars

\* the values tried around the bounds of a prior
Probes(args) ==
    {args[1] - 1, args[1], args[1] + 1, args[2] - 1, args[2], args[2] + 1}

(* C5: a flat prior installed by set_prior with bounds [a, b], a < b,      *)
(* returns -infinity for every value strictly outside [a, b] and the same  *)
(* finite constant log(1 / (b - a)) for every value inside, a and b        *)
(* themselves included.                                                    *)
C5_FlatPrior ==
    \A k \in DOMAIN priors :
        LET a == priors[k].args[1]
            b == priors[k].args[2]
        IN  (priors[k].type = "flat" /\ a < b) =>
                /\ isfinite(np_log(unit(k), b - a))
                /\ \A p \in Probes(priors[k].args) :
                       prior(k, priors[k], FloatV(p))
                           = IF p < a \/ p > b THEN Return(NegInf)
                             ELSE Return(np_log(unit(k), b - a))

\* set_prior('inc', [0, 180], 'Flat') has been called: 0 and 180 get the
\* constant, 181 gets -infinity
C5_Witness ==
    /\ ret.op = "set_prior" /\ ret.err = "none"
    /\ ret.arg = <<"inc", <<0, 180>>, "Flat">>
    /\ priors["inc"] = [type |-> "flat", args |-> <<0, 180>>]
    /\ prior("inc", priors["inc"], FloatV(0)) = Return(Fin(-ln_milli(180)))
    /\ prior("inc", priors["inc"], FloatV(180)) = Return(Fin(-ln_milli(180)))
    /\ prior("inc", priors["inc"], FloatV(181)) = Return(NegInf)

\* the positions of d whose key has a prior in the registry
WithPrior(d) == {i \in DOMAIN d : d[i].k \in DOMAIN priors}
\* the prior term of position i of d
Term(d, i) == prior(d[i].k, priors[d[i].k], d[i].v)
\* the term of position i was returned and is finite
FiniteTerm(d, i) == Term(d, i).err = "none" /\ isfinite(Term(d, i).val)

(* C6: _ln_prior returns the sum of the registry's prior log-densities     *)
(* over the parameters of the populated dictionary; at the first parameter *)
(* whose term is -infinity it returns -infinity, and no prior of a later   *)
(* parameter is evaluated.                                                 *)
C6_LnPrior ==
    ret.op = "_ln_prior" =>
        LET d == ret.arg
            RECURSIVE sum(_)
            sum(i) == IF i = 0 THEN 0
                      ELSE (IF i \in WithPrior(d) THEN Term(d, i).val.v ELSE 0)
                           + sum(i - 1)
        IN  /\ (\A i \in WithPrior(d) : FiniteTerm(d, i)) =>
                   /\ ret.err = "none"
                   /\ ret.val.val = Fin(sum(Len(d)))
                   /\ Len(ret.val.evaluated) = Cardinality(WithPrior(d))
            /\ \A i \in WithPrior(d) :
                   (/\ Term(d, i) = Return(NegInf)
                    /\ \A j \in WithPrior(d) : j < i => FiniteTerm(d, j)) =>
                       /\ ret.err = "none"
                       /\ ret.val.val = NegInf
                       /\ {ret.val.evaluated[n] : n \in DOMAIN ret.val.evaluated}
                              = {d[j].k : j \in {h \in WithPrior(d) : h <= i}}

\* a call that stopped at a parameter outside its prior, after having
\* evaluated other priors and before having evaluated them all
C6_Witness ==
    /\ ret.op = "_ln_prior" /\ ret.err = "none"
    /\ ret.val.val = NegInf
    /\ Len(ret.val.evaluated) > 1
    /\ Len(ret.val.evaluated) < Cardinality(WithPrior(ret.arg))

(* C7: _ln_probability returns log-prior + log-likelihood when the         *)
(* log-prior is finite (an error of the likelihood being the error of the  *)
(* call); when the log-prior is not finite it returns -infinity and        *)
(* _ln_likelihood is not called.                                           *)
C7_LnProbability ==
    ret.op = "_ln_probability" =>
        LET model == _populate_dictionary(ret.theta, ret.arg).val
            lnp == _ln_prior(priors, model)
            lnl == _ln_likelihood(model)
        IN  lnp.err = "none" =>
                IF isfinite(lnp.val)
                THEN /\ ret.val.likelihood
                     /\ ret.err = lnl.err
                     /\ lnl.err = "none" => ret.val.val = add(lnp.val, lnl.val)
                ELSE /\ ret.err = "none"
                     /\ ret.val.val = NegInf
                     /\ ~ret.val.likelihood

\* a call with a log-prior of nan (bounds of the prior reversed): the
\* result is -infinity and the likelihood was not called
C7_Witness ==
    /\ ret.op = "_ln_probability" /\ ret.err = "none"
    /\ _ln_prior(priors, _populate_dictionary(ret.theta, ret.arg).val).val = NaN
    /\ ret.val.val = NegInf
    /\ ~ret.val.likelihood

(* C8: for every parameter vector, _ln_likelihood and _ln_probability      *)
(* return a finite number or -infinity: they never return nan or           *)
(* +infinity and never raise.                                              *)
C8_FiniteOrNegInf ==
    ret.op \in {"_ln_likelihood", "_ln_probability"} =>
        /\ ret.err = "none"
        /\ isfinite(ret.val.val) \/ ret.val.val = NegInf

-----------------------------------------------------------------------------
(* Spec: one call of fit_map(p0, params, ...), step by step.               *)

\* the call's other arguments
FitCalls ==
    [optimize : BOOLEAN, niter : 1..MaxIter, shadowed : BOOLEAN,
     r_min : {NoneV}, r_max : {NoneV, FloatV(3)}]
\* dictionaries with three free parameters (mass, systemic velocity and
\* position angle), with two (the position angle fixed), and with the
\* power-law rotation law
FitSpecs ==
    { <<Item("inc", FloatV(60)), Item("PA", pa)>> \o law
        \o <<Item("vlsr", IntV(1)), Item("x0", FloatV(1)), Item("y0", FloatV(1))>>
      : pa \in {FloatV(90), IntV(2)},
        law \in {<<Item("mstar", IntV(0))>>, <<Item("vp_100", IntV(0))>>} }

\* the vectors p0 given: three, two or one parameter
FitThetas == {Position(0, ndim) : ndim \in 1..3}

\* the values of returns given
Returns ==
    {<<"None">>, <<"none">>, <<"percentiles">>, <<"samples", "dict">>,
     <<"residuals">>, <<"sampler">>, <<"model">>, <<"residual">>}

Init ==
    /\ data = VelocityMap({}, 1)
    /\ error = ErrorMap({}, 1)
    /\ shadowed = FALSE
    /\ params \in FitSpecs
    /\ theta \in FitThetas
    /\ priors = _set_default_priors(<<>>)
    /\ ret = NoCall
    /\ call \in FitCalls
    /\ FitIdle

\* fit_map raises e
FitRaises(e) ==
    /\ pc' = "raised"
    /\ ret' = [op |-> "fit_map", arg |-> params, theta |-> theta, err |-> e,
               val |-> <<>>]

\* lines 224-233: r_min and r_max given as arguments are written into the
\* caller's dictionary, a copy of it is verified, self.shadowed is set
Validate ==
    LET p1 == IF call.r_min # NoneV THEN SetItem(params, "r_min", call.r_min)
              ELSE params
        p2 == IF call.r_max # NoneV THEN SetItem(p1, "r_max", call.r_max)
              ELSE p1
        out == verify_params_dictionary(p2)
    IN  /\ pc = "idle"
        /\ params' = p2
        /\ IF out.err # "none"
           THEN /\ FitRaises(out.err)
                /\ UNCHANGED <<shadowed, params_tmp, trace>>
           ELSE /\ pc' = "validated"
                /\ params_tmp' = out.val
                /\ shadowed' = call.shadowed
                /\ trace' = <<Event("verify", theta)>>
                /\ UNCHANGED ret
        /\ UNCHANGED <<data, error, theta, priors, call, res, p0, ivar, iter, sampler,
                       samples, medians, max_likelihood>>

\* lines 237-250: p0 = np.squeeze(p0) (a vector of one element becomes a
\* 0-d array, which can be neither indexed nor measured), the first
\* inverse-variance mask, the labels
InitialMask ==
    LET scalar == Len(theta) = 1
        labels == _get_labels(params_tmp)
        temp == _populate_dictionary(theta, params_tmp)
        out == _calc_ivar(temp.val)
        e == IF scalar /\ Len(labels) > 0
             THEN "IndexError: too many indices for array"
             ELSE IF temp.err # "none" THEN temp.err
             ELSE IF out.err # "none" THEN out.err
             ELSE IF scalar THEN "TypeError: len() of unsized object"
             ELSE IF Len(labels) # Len(theta)
             THEN "ValueError: Mismatch in labels and p0. Check for integers."
             ELSE "none"
    IN  /\ pc = "validated"
        /\ IF out.err = "none" /\ temp.err = "none" /\ ~(scalar /\ Len(labels) > 0)
           THEN /\ ivar' = out.val.ivar
                /\ trace' = Append(trace, Event("mask", theta))
           ELSE UNCHANGED <<ivar, trace>>
        /\ IF e # "none" THEN FitRaises(e) /\ UNCHANGED p0
           ELSE pc' = "start" /\ p0' = theta /\ UNCHANGED ret
        /\ UNCHANGED <<data, error, shadowed, params, theta, priors, call, res,
                       params_tmp, iter, sampler, samples, medians, max_likelihood>>

\* lines 256-257: p0 = self._optimize_p0(p0, params_tmp).  minimize calls
\* -self._ln_probability; theta = res.x if res.success, else theta is kept
Optimize ==
    LET lnp == _ln_probability(priors, p0, params_tmp)
    IN  /\ pc = "start"
        /\ call.optimize
        /\ IF lnp.err # "none"
           THEN FitRaises(lnp.err) /\ UNCHANGED <<p0, res, trace>>
           ELSE \E success \in BOOLEAN : \E x \in OptimizerPoints(p0) :
                   /\ res' = [ran |-> TRUE, success |-> success, x |-> x]
                   /\ p0' = optimized(res', p0)
                   /\ trace' = Append(trace, Event("optimize", p0'))
                   /\ pc' = "loop"
                   /\ UNCHANGED ret
        /\ UNCHANGED <<data, error, shadowed, params, theta, priors, call,
                       params_tmp, ivar, iter, sampler, samples, medians,
                       max_likelihood>>

\* optimize is False
SkipOptimize ==
    /\ pc = "start"
    /\ ~call.optimize
    /\ pc' = "loop"
    /\ UNCHANGED <<data, error, shadowed, params, theta, priors, ret, call, res, p0,
                   params_tmp, ivar, iter, sampler, samples, medians,
                   max_likelihood, trace>>

\* lines 264-270: another round; the mask is rebuilt from p0
BuildMask ==
    LET temp == _populate_dictionary(p0, params_tmp)
        verified == verify_params_dictionary(temp.val)
        out == _calc_ivar(verified.val)
        e == IF temp.err # "none" THEN temp.err
             ELSE IF verified.err # "none" THEN verified.err
             ELSE out.err
    IN  /\ pc = "loop"
        /\ loop_continues(iter, call.niter)
        /\ IF e # "none" THEN FitRaises(e) /\ UNCHANGED <<ivar, trace>>
           ELSE /\ ivar' = out.val.ivar
                /\ trace' = Append(trace, Event("mask", p0))
                /\ pc' = "mask_built"
                /\ UNCHANGED ret
        /\ UNCHANGED <<data, error, shadowed, params, theta, priors, call, res, p0,
                       params_tmp, iter, sampler, samples, medians, max_likelihood>>

\* lines 274-278: sampler = self._run_mcmc(p0, params_tmp, nwalkers, ...)
\* with nwalkers = 2 * p0.size, then the position angles of the chain are
\* wrapped if PA is a free parameter
Sample ==
    LET lnp == _ln_probability(priors, p0, params_tmp)
        PA == GetItem(params_tmp, "PA")
    IN  /\ pc = "mask_built"
        /\ IF lnp.err # "none"
           THEN FitRaises(lnp.err) /\ UNCHANGED <<sampler, trace>>
           ELSE \E shift \in ChainShifts :
                   LET chain == Chain(shift, 2 * Len(p0), Len(p0))
                   IN  /\ sampler' =
                            [chain |-> IF PA.t = "int" THEN wrap_PA(chain, PA.v)
                                       ELSE chain,
                             lnprobability |->
                                [w \in DOMAIN chain |-> [s \in DOMAIN chain[w] |->
                                    _ln_probability(priors, chain[w][s], params_tmp).val]]]
                       /\ trace' = Append(trace, Event("sample", p0))
                       /\ pc' = "sampled"
                       /\ UNCHANGED ret
        /\ UNCHANGED <<data, error, shadowed, params, theta, priors, call, res, p0,
                       params_tmp, ivar, iter, samples, medians, max_likelihood>>

\* lines 282-295: the post-burn-in samples, their median and the medians
\* dictionary; then p0 = samples[idx] with idx the argmin of the flattened
\* log-probabilities, and the max_likelihood dictionary
ExtractMedian ==
    LET flat == flat_samples(sampler.chain)
        median == median_axis0(flat)
        idx == argmin(flat_lnprob(sampler.lnprobability))
    IN  /\ pc = "sampled"
        /\ samples' = flat
        /\ medians' = verify_params_dictionary(
                          _populate_dictionary(median, params).val).val
        /\ p0' = flat[idx]
        /\ max_likelihood' = verify_params_dictionary(
                                 _populate_dictionary(flat[idx], params).val).val
        /\ iter' = iter + 1
        /\ trace' = Append(trace, Event("median", median))
        /\ pc' = "loop"
        /\ UNCHANGED <<data, error, shadowed, params, theta, priors, ret, call, res,
                       params_tmp, ivar, sampler>>

\* self.data * 1e3 - model
residual_map(model) ==
    [px \in Pixels |->
        IF isfinite(data[px]) /\ isfinite(model[px])
        THEN Fin((data[px].v * 1000) - model[px].v) ELSE NaN]

\* what goes into to_return for one name of returns (evaluate_models is
\* called with its default draws = 0.5)
ReturnItem(name) ==
    CASE name = "samples" -> samples
      [] name = "sampler" -> sampler
      [] name = "lnprob" -> SubSeq(sampler.lnprobability, nburnin + 1,
                                   Len(sampler.lnprobability))
      [] name = "percentiles" -> percentiles(samples)
      [] name \in {"medians", "dict"} -> medians
      [] name = "maxl" -> max_likelihood
      [] name = "model" -> evaluate_models(samples, params, 50).val
      [] name = "residual" ->
            residual_map(evaluate_models(samples, params, 50).val)

\* lines 296-395 (the plots draw and change nothing): the value returned,
\* with the returns argument the call was given
Finalize ==
    \E returns \in Returns :
        LET asked == {returns[i] : i \in DOMAIN returns}
            names == SelectSeq(ReturnNames, LAMBDA name : name \in asked)
            to_return == [i \in DOMAIN names |-> ReturnItem(names[i])]
            model == evaluate_models(samples, params, 50)
            left(at, e, val) ==
                /\ pc' = at
                /\ ret' = [op |-> "fit_map", arg |-> params, theta |-> theta,
                           err |-> e, val |-> val, returns |-> returns]
            done(val) == left("done", "none", val)
        IN  /\ pc = "loop"
            /\ ~loop_continues(iter, call.niter)
            /\ trace' = Append(trace, Event("finalize", p0))
            /\ IF returns = <<"None">>
               THEN done(<<"percentiles">>) /\ UNCHANGED shadowed
               ELSE IF "none" \in asked
               THEN done(<<>>) /\ UNCHANGED shadowed
               ELSE IF ("model" \in asked \/ "residual" \in asked)
                       /\ model.err # "none"
               THEN left("raised", model.err, <<>>) /\ UNCHANGED shadowed
               ELSE /\ shadowed' = FALSE
                    /\ IF Len(to_return) > 1 THEN done(to_return)
                       ELSE IF Len(to_return) = 1 THEN done(to_return[1])
                       ELSE left("raised", "IndexError: list index out of range",
                                 <<>>)
            /\ UNCHANGED <<data, error, params, theta, priors, call, res, p0,
                           params_tmp, ivar, iter, sampler, samples, medians,
                           max_likelihood>>

Next ==
    Validate \/ InitialMask \/ Optimize \/ SkipOptimize \/ BuildMask
        \/ Sample \/ ExtractMedian \/ Finalize

Spec == Init /\ [][Next]_vars

\* the names of the events of the trace, in order
TraceNames == [i \in DOMAIN trace |-> trace[i].ev]
\* Initialize -> (optional) Optimize -> rounds x {Build-Mask -> Sample ->
\* Extract-Median} -> Finalize
ExpectedNames(optimize, rounds) ==
    (IF optimize THEN <<"verify", "mask", "optimize">> ELSE <<"verify", "mask">>)
    \o [i \in 1..(3 * rounds) |-> <<"mask", "sample", "median">>[((i - 1) % 3) + 1]]
    \o <<"finalize">>

(* C9: fit_map validates the dictionary and builds the first mask before   *)
(* anything else, runs the optimizer at most once, before the first        *)
(* sampling run and only if optimize is true, and for niter = n >= 1 runs  *)
(* the sampler exactly n times, each run right after a rebuild of the mask *)
(* from the same starting vector and right before the median extraction;   *)
(* then it finalizes.                                                      *)
C9_Order ==
    LET full == ExpectedNames(call.optimize, call.niter)
    IN  /\ Len(trace) <= Len(full)
        /\ \A i \in DOMAIN trace : TraceNames[i] = full[i]
        /\ pc = "done" => TraceNames = full
        /\ \A i \in DOMAIN trace :
               TraceNames[i] = "sample" =>
                   /\ TraceNames[i - 1] = "mask"
                   /\ trace[i - 1].p0 = trace[i].p0
                   /\ pc \in {"done", "loop"} => TraceNames[i + 1] = "median"
        /\ pc = "done" =>
               /\ Cardinality({i \in DOMAIN trace : TraceNames[i] = "sample"})
                      = call.niter
               /\ Cardinality({i \in DOMAIN trace : TraceNames[i] = "optimize"})
                      = IF call.optimize THEN 1 ELSE 0

\* a call with optimize = True and niter = 2 has returned
C9_Witness ==
    /\ pc = "done"
    /\ call.optimize /\ call.niter = 2
    /\ TraceNames = <<"verify", "mask", "optimize", "mask", "sample", "median",
                      "mask", "sample", "median", "finalize">>

\* the median extracted last before event i of the trace
MedianBefore(i) ==
    trace[CHOOSE j \in 1..(i - 1) :
            /\ TraceNames[j] = "median"
            /\ \A h \in (j + 1)..(i - 1) : TraceNames[h] # "median"].p0

(* C10: in every round of fit_map after the first, the vector the mask is  *)
(* built from and the walkers are started from is the per-parameter median *)
(* of the previous round's post-burn-in samples.                           *)
C10_MedianFeedsBack ==
    \A i \in DOMAIN trace :
        (/\ TraceNames[i] \in {"mask", "sample"}
         /\ \E j \in 1..(i - 1) : TraceNames[j] = "median") =>
            trace[i].p0 = MedianBefore(i)

\* the optimizer has reported non-convergence
NotConverged == res.ran /\ ~res.success

(* C11: when scipy.optimize.minimize reports non-convergence,              *)
(* _optimize_p0 does not raise and returns the vector it was given (res.x, *)
(* the best point the optimizer found, is dropped); fit_map goes on to     *)
(* rebuild the mask and to sample from that vector, so it cannot have      *)
(* raised before a sampling run.                                           *)
C11_NonConvergence ==
    NotConverged =>
        /\ \A i \in DOMAIN trace :
               TraceNames[i] = "optimize" =>
                   /\ trace[i].p0 = theta
                   /\ \A j \in (i + 1)..Len(trace) :
                          (j <= i + 2) => trace[j].p0 = theta
        /\ pc = "raised" => \E i \in DOMAIN trace : TraceNames[i] = "sample"
        /\ pc = "loop" /\ iter = 0 => p0 = theta

\* non-convergence was reported with a best point other than the vector
\* given, and the first sampling run has started from the vector given
C11_Witness ==
    /\ NotConverged
    /\ res.x # theta
    /\ pc = "sampled" /\ iter = 0
    /\ trace[Len(trace)] = Event("sample", theta)

\* C11 as stated: after non-convergence the starting vector of the
\* sampling is the best point the optimizer found
C11_BestPointFound ==
    NotConverged =>
        \A i \in DOMAIN trace :
            (TraceNames[i] = "sample" /\ TraceNames[i - 2] = "optimize") =>
                trace[i].p0 = res.x

\* the chains run_mcmc can have produced for the walkers of chain
RawChains(chain) ==
    {Chain(shift, Len(chain), Len(chain[1][1])) : shift \in ChainShifts}

GatedLikelihood(p, w) ==
    LET lnx2(n) == IF mask[PixelSeq[n]] /\ w[PixelSeq[n]] # 0
                   THEN residual2(data[PixelSeq[n]], _make_model_at(p, PixelSeq[n]))
                   ELSE Fin(0)
        RECURSIVE sum(_)
        sum(n) == IF n = 0 THEN 0 ELSE lnx2(n).v + sum(n - 1)
    IN  IF \E n \in DOMAIN PixelSeq : ~isfinite(lnx2(n)) THEN NegInf
        ELSE Fin(-(sum(Len(PixelSeq)) \div 2000))

\* the dictionaries the sampler evaluated in the last run: the positions of
\* the chain written into params_tmp
Evaluated ==
    {_populate_dictionary(sampler.chain[w][s], params_tmp).val :
        w \in DOMAIN sampler.chain, s \in 1..(nburnin + nsteps)}

(* C19: the inverse-variance mask gates the likelihood: in a sampling run  *)
(* of fit_map the log-likelihood of every dictionary evaluated is the sum  *)
(* over the pixels whose weight in self.ivar is not 0, a pixel of weight 0 *)
(* (outside the radius, angle or velocity mask, or of non-positive         *)
(* uncertainty) contributing nothing.                                      *)
C19_IvarGates ==
    pc = "sampled" =>
        \A p \in Evaluated :
            _ln_likelihood(p).val = GatedLikelihood(p, ivar)

\* the items the documentation of fit_map lists for returns, and the value
\* of each
DocumentedNames ==
    <<"samples", "sampler", "percentiles", "dict", "model", "residuals">>
DocumentedItem(name) ==
    CASE name = "samples" -> samples
      [] name = "sampler" -> sampler
      [] name = "percentiles" -> percentiles(samples)
      [] name = "dict" -> medians
      [] name = "model" -> evaluate_models(samples, params, 50).val
      [] name = "residuals" ->
            residual_map(evaluate_models(samples, params, 50).val)

(* C21: fit_map returns what the returns list selects: every documented    *)
(* item name ('samples', 'sampler', 'percentiles', 'dict', 'model',        *)
(* 'residuals') yields its value, a single item is returned unwrapped,     *)
(* several as a list, and 'none' yields None.                              *)
C21_ReturnsSelected ==
    (/\ ret.op = "fit_map" /\ "returns" \in DOMAIN ret
     /\ \A i \in DOMAIN ret.returns :
            ret.returns[i] = "none"
            \/ \E k \in DOMAIN DocumentedNames : ret.returns[i] = DocumentedNames[k]) =>
        LET asked == {ret.returns[i] : i \in DOMAIN ret.returns}
            names == SelectSeq(DocumentedNames, LAMBDA name : name \in asked)
            items == [i \in DOMAIN names |-> DocumentedItem(names[i])]
        IN  /\ ret.err = "none"
            /\ ret.val = IF "none" \in asked THEN <<>>
                         ELSE IF Len(items) > 1 THEN items ELSE items[1]

\* the call has got past its check of p0 against the labels, or has
\* raised on the way (with the shadowed solver off)
PastLabelCheck ==
    pc \notin {"idle", "validated"} /\ params_tmp # <<>> /\ ~call.shadowed

(* C23: fit_map rejects a dictionary that does not match the vector p0:    *)
(* whenever the number of integer (non-boolean) entries of params differs  *)
(* from the length of p0 it raises the ValueError 'Mismatch in labels and  *)
(* p0', before the optimizer or the sampler has run.                       *)
C23_MismatchRejected ==
    (PastLabelCheck /\ Len(_get_labels(params_tmp)) # Len(theta)) =>
        /\ pc = "raised"
        /\ ret.err = "ValueError: Mismatch in labels and p0. Check for integers."
        /\ \A i \in DOMAIN trace : trace[i].ev \notin {"optimize", "sample"}

\* the post-burn-in (walker, step) pairs of the last sampling run, and
\* those of least log-probability
PostBurnIn ==
    {ws \in (DOMAIN sampler.chain) \X ((nburnin + 1)..(nburnin + nsteps)) : TRUE}
LeastProbable ==
    {ws \in PostBurnIn :
        \A o \in PostBurnIn :
            ~less(sampler.lnprobability[o[1]][o[2]],
                  sampler.lnprobability[ws[1]][ws[2]])}

(* C24: the vector fit_map takes for the max_likelihood dictionary is the  *)
(* post-burn-in sample whose log-probability is the least of all           *)
(* post-burn-in (walker, step) pairs: the index found in the flattened     *)
(* log-probabilities designates the same pair in the flattened samples.    *)
C24_SamePair ==
    (pc = "loop" /\ trace # <<>> /\ trace[Len(trace)].ev = "median") =>
        \E ws \in LeastProbable : p0 = sampler.chain[ws[1]][ws[2]]

-----------------------------------------------------------------------------
(* SpecGeom: the geometry engine called on its own: disk_coords on         *)
(* verified dictionaries, the shadowed attribute being set and cleared     *)
(* between calls.                                                          *)

\* inclinations given to disk_coords
GeomIncs == {-60, 0, 60, 90, 120, 180, 240}
GeomPAs == {0, 90, 180, 270}
GeomOffsets == {0, 1}

\* the pixels at which the model of w_func is exact: all without warp, the
\* pixels whose disk-plane position is on an axis with it
ExactPixels(x0, y0, inc, PA, g) ==
    {px \in Pixels :
        LET mid == get_midplane_cart_coords(x0, y0, inc, PA, px)
        IN  g.w_i = 0 \/ mid.x = 0 \/ mid.y = 0}

\* the flat surface (the defaults of verify_params_dictionary), a cone
\* (z = z0), a flared surface (z = z0 r^2), flat surfaces with a negative
\* flaring exponent and a cavity, a warp
FlatSurface ==
    [z0 |-> 0, psi |-> 10, r_cavity |-> 0, r_taper |-> E10, q_taper |-> 10,
     w_i |-> 0, w_r |-> 1, w_t |-> 0]
GeomSurfaces ==
    {FlatSurface,
     [FlatSurface EXCEPT !.z0 = 1, !.psi = 0],
     [FlatSurface EXCEPT !.z0 = 1, !.psi = 20],
     [FlatSurface EXCEPT !.psi = -10],
     [FlatSurface EXCEPT !.psi = -10, !.r_cavity = 2],
     [FlatSurface EXCEPT !.w_i = 45, !.w_r = E10]}

\* the keyword arguments of the calls: every surface at inclination 0, the
\* flat one at the others; niter is the argument of dp.get_flared_coords
GeomCalls ==
    { c \in [x0 : GeomOffsets, y0 : GeomOffsets, inc : GeomIncs, PA : GeomPAs,
             g : GeomSurfaces, niter : {0, disk_coords_niter}]
      : c.inc = 0 \/ c.g = FlatSurface }

InitGeom ==
    /\ data = VelocityMap({}, 1)
    /\ error = ErrorMap({}, 1)
    /\ shadowed = FALSE
    /\ params = <<>>
    /\ theta = <<>>
    /\ priors = _set_default_priors(<<>>)
    /\ ret = NoCall
    /\ FitIdle /\ call \in GeomCalls

SurfaceSeq == <<"z0", "psi", "r_cavity", "r_taper", "q_taper", "w_i", "w_r", "w_t">>

\* self.disk_coords(**params) for the verified dictionary of the
\* arguments; the call records the inclination it hands to the geometry
\* engine
CallDiskCoords ==
    LET p == verify_params_dictionary(
                 <<Item("inc", FloatV(call.inc)), Item("PA", FloatV(call.PA)),
                   Item("mstar", FloatV(10)), Item("x0", FloatV(call.x0)),
                   Item("y0", FloatV(call.y0))>>
                 \o [i \in DOMAIN SurfaceSeq |->
                        Item(SurfaceSeq[i], FloatV(call.g[SurfaceSeq[i]]))]).val
        out == IF disk_coords_error # "none" THEN disk_coords(p)
               ELSE Return([px \in ExactPixels(call.x0, call.y0,
                                               inc_convention(call.inc), call.PA, call.g)
                               |-> disk_coords_at(p, px)])
    IN  /\ ret' = [op |-> "disk_coords", arg |-> p, theta |-> <<>>,
                   err |-> out.err, val |-> out.val,
                   inc |-> inc_convention(GetItem(p, "inc").v)]
        /\ UNCHANGED <<data, error, shadowed, params, theta, priors, fitvars>>

\* dp.get_flared_coords(x0, y0, xaxis, yaxis, inc, PA, z0, ..., niter)
CallGetFlaredCoords ==
    /\ ret' = [op |-> "get_flared_coords", arg |-> call, theta |-> <<>>,
               err |-> "none",
               val |-> [px \in ExactPixels(call.x0, call.y0, call.inc, call.PA, call.g)
                           |-> get_flared_coords(call.x0, call.y0, call.inc, call.PA,
                                                 call.g, call.niter, px)]]
    /\ UNCHANGED <<data, error, shadowed, params, theta, priors, fitvars>>

\* the rotation laws given: Keplerian, and a power law of exponent 0
\* with 'mstar' left out or None
GeomLaws ==
    {<<Item("mstar", FloatV(10))>>,
     <<Item("vp_100", FloatV(200)), Item("vp_q", FloatV(0))>>,
     <<Item("mstar", NoneV), Item("vp_100", FloatV(200)), Item("vp_q", FloatV(0))>>}

\* self.evaluate_model(params) for a flat surface that is not edge-on
\* (where the radii are beyond the range of the velocities): the
\* dictionary is copied and verified, then self._make_model is called
CallEvaluateModel ==
    \E law \in GeomLaws :
        LET verified_params ==
                verify_params_dictionary(
                    <<Item("inc", FloatV(call.inc)), Item("PA", FloatV(call.PA))>>
                    \o law
                    \o <<Item("x0", FloatV(call.x0)), Item("y0", FloatV(call.y0))>>).val
        IN  /\ call.g = FlatSurface /\ call.inc # 90
            /\ ret' = Called("evaluate_model", verified_params, <<>>,
                             _make_model(verified_params))
            /\ UNCHANGED <<data, error, shadowed, params, theta, priors, fitvars>>

NextGeom ==
    CallDiskCoords \/ SetShadowed \/ CallGetFlaredCoords \/ CallEvaluateModel

SpecGeom == InitGeom /\ [][NextGeom]_vars

(* C13: disk_coords uses an inclination below 90 unchanged and replaces an *)
(* inclination of 90 or more by the inclination minus 180, so that for an  *)
(* input in [-90, 270) the value handed to the deprojection lies in        *)
(* [-90, 90): 90 itself becomes -90.                                       *)
C13_IncConvention ==
    ret.op = "disk_coords" =>
        LET given == GetItem(ret.arg, "inc").v
        IN  /\ ret.inc = IF given < 90 THEN given ELSE given - 180
            /\ (given >= -90 /\ given < 270) => (ret.inc >= -90 /\ ret.inc < 90)
            /\ ret.err = "none" =>
                   \A px \in DOMAIN ret.val :
                       ret.val[px] =
                           get_flared_coords(
                               GetItem(ret.arg, "x0").v, GetItem(ret.arg, "y0").v,
                               IF given < 90 THEN given ELSE given - 180,
                               GetItem(ret.arg, "PA").v,
                               [k \in SurfaceKeys |-> GetItem(ret.arg, k).v],
                               disk_coords_niter, px)

\* disk_coords has returned for an inclination of exactly 90
C13_Witness ==
    /\ ret.op = "disk_coords" /\ ret.err = "none"
    /\ GetItem(ret.arg, "inc").v = 90
    /\ ret.inc = -90

\* C13 as stated: the inclination used lies in (-90, 90]
C13_HalfOpenAbove ==
    ret.op = "disk_coords" => (ret.inc > -90 /\ ret.inc <= 90)

\* the recentred sky coordinates of pixel px
Recentred(arg, px) == [x |-> xaxis[px[2]] - arg.x0, y |-> yaxis[px[1]] - arg.y0]

\* the surface height is not finite at zero radius, and the solver iterates
HeightNotFinite(arg, sky) ==
    /\ arg.niter > 0
    /\ arg.g.psi < 0
    /\ r_is_zero(hypot2(sky.x, sky.y), arg.g)

(* C14: at inclination 0 the radius the geometry engine returns at a pixel *)
(* is hypot(x - x0, y - y0) of the recentred sky coordinates, and the      *)
(* azimuth is atan2(y_rot, x_rot) of those coordinates rotated by the      *)
(* position angle, x_rot = (y - y0) cos PA + (x - x0) sin PA and           *)
(* y_rot = (x - x0) cos PA - (y - y0) sin PA, for every centre offset,     *)
(* position angle and surface whose height is finite there; where the      *)
(* height is not finite both are nan.                                      *)
C14_FaceOn ==
    (ret.op = "get_flared_coords" /\ ret.arg.inc = 0) =>
        \A px \in DOMAIN ret.val :
            LET sky == Recentred(ret.arg, px)
                c == ret.val[px]
                PA == ret.arg.PA
            IN  IF HeightNotFinite(ret.arg, sky) THEN c.nan
                ELSE /\ ~c.nan
                     /\ c.r2 = (sky.x * sky.x) + (sky.y * sky.y)
                     /\ c.t = arctan2((sky.x * cosd(PA)) - (sky.y * sind(PA)),
                                      (sky.y * cosd(PA)) + (sky.x * sind(PA)))

\* a face-on call with an offset centre and a flared surface has returned
\* for the whole map
C14_Witness ==
    /\ ret.op = "get_flared_coords" /\ ret.arg.inc = 0
    /\ ret.arg.x0 = 1 /\ ret.arg.y0 = 1 /\ ret.arg.PA = 90
    /\ ret.arg.g.z0 = 1 /\ ret.arg.g.psi = 20 /\ ret.arg.niter = disk_coords_niter
    /\ DOMAIN ret.val = Pixels
    /\ \A px \in Pixels : ~ret.val[px].nan

\* C14 as stated: at inclination 0 the azimuth is atan2(y - y0, x - x0)
\* and the radius hypot(x - x0, y - y0)
C14_SkyAzimuth ==
    (ret.op = "get_flared_coords" /\ ret.arg.inc = 0) =>
        \A px \in DOMAIN ret.val :
            LET sky == Recentred(ret.arg, px)
            IN  /\ ~ret.val[px].nan
                /\ ret.val[px].r2 = (sky.x * sky.x) + (sky.y * sky.y)
                /\ ret.val[px].t = arctan2(sky.y, sky.x)

(* C17: with rotationmap.shadowed set, disk_coords completes without       *)
(* raising and returns a (radius, azimuth, height) value for every sky     *)
(* pixel.                                                                  *)
C17_ShadowedCompletes ==
    (ret.op = "disk_coords" /\ shadowed) =>
        /\ ret.err = "none"
        /\ DOMAIN ret.val = Pixels

\* the power law of the dictionary p at the pixel with coordinates c, for
\* an exponent vp_q = 0, no taper (vp_rtaper = 1e10) and no radial term
\* (vr_100 = 0): vp_100 * cos(t) * |sin(inc)| + vlsr
PowerLawAt(p, c) ==
    CASE GetItem(p, "vp_q").v = 0 /\ GetItem(p, "vp_rtaper").v = E10
         /\ GetItem(p, "vr_100").v = 0 /\ c.r2 # 0 ->
        Fin(proj_vphi(GetItem(p, "vp_100").v, c, GetItem(p, "inc").v)
            + GetItem(p, "vlsr").v)

(* C18: for a dictionary with the power-law rotation law ('vp_100' set,    *)
(* 'mstar' absent or None) the model evaluation returns at each pixel      *)
(* vp_100 (r dist / 100)^vp_q exp(-(r / vp_rtaper)^vp_qtaper) projected by *)
(* cos(t) |sin(inc)|, plus the radial term, plus the systemic velocity.    *)
C18_PowerLaw ==
    (/\ ret.op = "evaluate_model"
     /\ GetItem(ret.arg, "vfunc") = proj_vpow
     /\ ~shadowed) =>
        /\ ret.err = "none"
        /\ \A px \in Pixels :
               disk_coords_at(ret.arg, px).r2 # 0 =>
                   ret.val[px] = PowerLawAt(ret.arg, disk_coords_at(ret.arg, px))

-----------------------------------------------------------------------------
(* SpecSolver: the functions of deprojection.py that work on one point,    *)
(* called on points, angles, surfaces and iteration counts drawn from      *)
(* small sets.                                                             *)

SolverPoints == {-2, -1, 0, 1, 2}
SolverIncs == {-45, 0, 45, 60}

\* the arguments for which the model is exact: a warp on the axes only,
\* tan(60) with a height of 0 only, z0 r^2 (which outgrows the integers
\* when iterated) face-on only
SolverCalls ==
    { c \in [x : SolverPoints, y : SolverPoints, inc : SolverIncs, PA : GeomPAs,
             g : GeomSurfaces, niter : 0..MaxNiter]
      : /\ c.g.w_i = 0 \/ c.x = 0 \/ c.y = 0
        /\ c.inc = 60 => (c.g.z0 = 0 /\ c.g.w_i = 0)
        /\ c.g.psi = 20 => c.inc = 0 }

InitSolver ==
    /\ data = VelocityMap({}, 1)
    /\ error = ErrorMap({}, 1)
    /\ shadowed = FALSE
    /\ params = <<>>
    /\ theta = <<>>
    /\ priors = _set_default_priors(<<>>)
    /\ ret = NoCall
    /\ FitIdle /\ call \in SolverCalls

\* _get_flared_coords(x_mid, y_mid, inc, z0, ..., niter)
CallSolver ==
    /\ ret' = [op |-> "_get_flared_coords", arg |-> call, theta |-> <<>>,
               err |-> "none",
               val |-> _get_flared_coords(call.x, call.y, call.inc, call.g,
                                          call.niter)]
    /\ UNCHANGED <<data, error, shadowed, params, theta, priors, fitvars>>

\* x1, y1 = rotate_coords(x, y, PA); rotate_coords(x1, y1, back) with the
\* second angle -PA or PA
CallRotateBack ==
    \E back \in {-call.PA, call.PA} :
        LET there == rotate_coords(call.x, call.y, call.PA)
        IN  /\ ret' = [op |-> "rotate_coords", arg |-> call, theta |-> <<>>,
                       err |-> "none", back |-> back,
                       val |-> rotate_coords(there.x, there.y, back)]
            /\ UNCHANGED <<data, error, shadowed, params, theta, priors, fitvars>>

NextSolver == CallSolver \/ CallRotateBack

SpecSolver == InitSolver /\ [][NextSolver]_vars

\* the flat-disk result at the point (x, y): z = 0
FlatDisk(x, y) ==
    [r2 |-> (x * x) + (y * y), t |-> arctan2(y, x), z |-> Fin(0), x |-> x,
     y |-> y, nan |-> FALSE]

\* the height z_func gives at the point is defined: np.power(r, psi) is
\* finite
HeightDefined(arg) ==
    arg.g.psi >= 0 \/ ~r_is_zero((arg.x * arg.x) + (arg.y * arg.y), arg.g)

(* C15: with z0 = 0 and no warp (w_i = 0) the solver returns the flat-disk *)
(* radius and azimuth and a height of 0 for every iteration count          *)
(* niter >= 0, at every inclination and point where the height is defined  *)
(* (psi >= 0, or a radius beyond the cavity).                              *)
C15_FlatFixedPoint ==
    (/\ ret.op = "_get_flared_coords"
     /\ ret.arg.g.z0 = 0 /\ ret.arg.g.w_i = 0
     /\ HeightDefined(ret.arg)) =>
        ret.val = FlatDisk(ret.arg.x, ret.arg.y)

\* the solver has iterated MaxNiter times at 60 degrees on a surface with
\* z0 = 0, a cavity and a negative flaring exponent, off the axes
C15_Witness ==
    /\ ret.op = "_get_flared_coords"
    /\ ret.arg.niter = MaxNiter /\ ret.arg.inc = 60
    /\ ret.arg.g.z0 = 0 /\ ret.arg.g.psi = -10 /\ ret.arg.g.r_cavity = 2
    /\ ret.arg.x = 2 /\ ret.arg.y = -2
    /\ ret.val = FlatDisk(2, -2)

\* C15 as stated: with z0 = 0 the result is the flat-disk one for every
\* niter, whatever the other surface and warp parameters are
C15_AnyWarp ==
    (ret.op = "_get_flared_coords" /\ ret.arg.g.z0 = 0) =>
        ret.val = FlatDisk(ret.arg.x, ret.arg.y)

(* C16: rotate_coords is its own inverse: applying it with PA and then     *)
(* with PA again reconstructs (x, y); applying it with PA and then with    *)
(* -PA turns (x, y) by twice PA, which reconstructs (x, y) only if PA is a *)
(* multiple of 180 degrees or the point is the origin.                     *)
C16_Involution ==
    ret.op = "rotate_coords" =>
        LET x == ret.arg.x
            y == ret.arg.y
            PA == ret.arg.PA
        IN  /\ ret.back = PA => (ret.val.x = x /\ ret.val.y = y)
            /\ ret.back = -PA =>
                   /\ ret.val.x = (x * cosd(2 * PA)) - (y * sind(2 * PA))
                   /\ ret.val.y = (y * cosd(2 * PA)) + (x * sind(2 * PA))
                   /\ (ret.val.x = x /\ ret.val.y = y) <=>
                          (PA % 180 = 0 \/ (x = 0 /\ y = 0))

\* a point off the axes has been rotated by 90 degrees and by 90 degrees
\* again, and is back where it was
C16_Witness ==
    /\ ret.op = "rotate_coords"
    /\ ret.arg.PA = 90 /\ ret.back = 90
    /\ ret.arg.x = 1 /\ ret.arg.y = 2
    /\ ret.val.x = 1 /\ ret.val.y = 2

\* C16 as stated: rotate_coords with PA and then with -PA reconstructs
\* (x, y)
C16_RoundTrip ==
    (ret.op = "rotate_coords" /\ ret.back = -ret.arg.PA) =>
        (ret.val.x = ret.arg.x /\ ret.val.y = ret.arg.y)

-----------------------------------------------------------------------------
(* SpecCube: the constructor rotationmap(path, uncertainty, FOV,           *)
(* downsample) on images of several sizes.  Positions are counted in half  *)
(* pixels (a pixel is 2 wide), an index counts from 0 as in the code and a *)
(* position of a sequence from 1.  A 2-d array is the record of its shape  *)
(* and its elements, [rows, cols, at], at[<<j, i>>] with j, i from 1.      *)

\* the largest number of pixels along an axis of an image
MaxAxis == 6
\* the largest downsample factor given
MaxDownsample == 4

\* downsample='beam'
BeamV == [t |-> "str", v |-> 0]

absv(x) == IF x < 0 THEN -x ELSE x

\* array.shape
shape(a) == <<a.rows, a.cols>>

\* fits.getdata(path) of an image of naxis2 rows and naxis1 columns in m/s,
\* every pixel with a value of its own, nan on nanpix.  np.squeeze leaves
\* an image with more than one pixel along both axes as it is
getdata(naxis1, naxis2, nanpix) ==
    [rows |-> naxis2, cols |-> naxis1,
     at |-> [p \in (1..naxis2) \X (1..naxis1) |->
                IF p \in nanpix THEN NaN ELSE Fin(1000 * ((10 * p[1]) + p[2]))]]

\* abs(array)
np_abs(a) ==
    [a EXCEPT !.at = [p \in DOMAIN a.at |->
                         IF isfinite(a.at[p]) THEN Fin(absv(a.at[p].v)) ELSE a.at[p]]]
\* np.where(np.isnan(array), 0.0, array)
nan_to_zero(a) ==
    [a EXCEPT !.at = [p \in DOMAIN a.at |->
                         IF a.at[p] = NaN THEN Fin(0) ELSE a.at[p]]]
\* array *= 1e-3
to_kms(a) ==
    [a EXCEPT !.at = [p \in DOMAIN a.at |->
                         IF isfinite(a.at[p]) THEN Fin(a.at[p].v \div 1000)
                         ELSE a.at[p]]]
\* np.isfinite(array)
np_isfinite(a) ==
    [a EXCEPT !.at = [p \in DOMAIN a.at |-> isfinite(a.at[p])]]
\* np.nanmedian(array): nan if no element is finite
np_nanmedian(a) ==
    LET n == a.rows * a.cols
        pix == [k \in 1..n |-> <<((k - 1) \div a.cols) + 1, ((k - 1) % a.cols) + 1>>]
        finite == SelectSeq(pix, LAMBDA p : isfinite(a.at[p]))
    IN  IF Len(finite) = 0 THEN NaN
        ELSE Fin(Median([k \in DOMAIN finite |-> a.at[finite[k]].v]))

\* where a bound k of a slice falls among n elements: a negative bound
\* counts from the end, and a bound outside the array is brought to its edge
slice_bound(n, k) ==
    IF k < 0 THEN (IF n + k < 0 THEN 0 ELSE n + k)
    ELSE IF k > n THEN n ELSE k
\* the positions that [start:stop:step] selects among n elements
PySlice(n, start, stop, step) ==
    LET lo == slice_bound(n, start)
        hi == slice_bound(n, stop)
        count == IF hi <= lo THEN 0 ELSE ((hi - lo - 1) \div step) + 1
    IN  [k \in 1..count |-> lo + ((k - 1) * step) + 1]
\* axis[start:stop:step]
slice1(axis, start, stop, step) ==
    LET idx == PySlice(Len(axis), start, stop, step)
    IN  [k \in DOMAIN idx |-> axis[idx[k]]]
\* array[j0:j1:jstep, i0:i1:istep]
slice2(a, j0, j1, jstep, i0, i1, istep) ==
    LET jj == PySlice(a.rows, j0, j1, jstep)
        ii == PySlice(a.cols, i0, i1, istep)
    IN  [rows |-> Len(jj), cols |-> Len(ii),
         at |-> [p \in (1..Len(jj)) \X (1..Len(ii)) |-> a.at[<<jj[p[1]], ii[p[2]]>>]]]

\* self._read_position_axis(a): 3600 * ((np.arange(a_len) - a_pix + 1.5)
\* * a_del), with 3600 * a_del one pixel in either direction (a_del = 1 or
\* -1 here) and a_pix a whole number
_read_position_axis(a_len, a_del, a_pix) ==
    [k \in 1..a_len |-> (((2 * (k - 1)) - (2 * a_pix)) + 3) * a_del]

\* abs(np.diff(axis)).mean() of an evenly spaced axis: nan below two elements
mean_abs_diff(axis) ==
    IF Len(axis) < 2 THEN NaN ELSE Fin(absv(axis[2] - axis[1]))

\* abs(axis - v).argmin(): the first index (from 0) of the nearest element
abs_argmin(axis, v) ==
    CHOOSE k \in 0..(Len(axis) - 1) :
        \A m \in 0..(Len(axis) - 1) :
            \/ absv(axis[k + 1] - v) < absv(axis[m + 1] - v)
            \/ absv(axis[k + 1] - v) = absv(axis[m + 1] - v) /\ k <= m

\* max(axis)
max_of(axis) == SetMax({axis[k] : k \in DOMAIN axis})

\* self._downsample_cube(N) on the object c
_downsample_cube_mut(c, N) ==
    LET N0 == N \div 2
    IN  [c EXCEPT !.xaxis = slice1(c.xaxis, N0, Len(c.xaxis), N),
                  !.yaxis = slice1(c.yaxis, N0, Len(c.yaxis), N),
                  !.data = slice2(c.data, N0, c.data.rows, N, N0, c.data.cols, N),
                  !.error = slice2(c.error, 0, c.error.rows, N, 0, c.error.cols, N)]
_downsample_cube(c, N) ==
    LET N0 == N \div 2
    IN  [c EXCEPT !.xaxis = slice1(c.xaxis, N0, Len(c.xaxis), N),
                  !.yaxis = slice1(c.yaxis, N0, Len(c.yaxis), N),
                  !.data = slice2(c.data, N0, c.data.rows, N, N0, c.data.cols, N),
                  !.error = slice2(c.error, N0, c.error.rows, N, N0, c.error.cols, N)]

\* the bounds xa, xb, ya, yb of the slices of _clip_cube
clip_bounds(c, radius) ==
    LET xa == abs_argmin(c.xaxis, radius)
        xb == abs_argmin(c.xaxis, -radius)
        ya == abs_argmin(c.yaxis, -radius)
        yb == abs_argmin(c.yaxis, radius)
    IN  [xa |-> IF c.xaxis[xa + 1] < radius THEN xa - 1 ELSE xa,
         xb |-> (IF -c.xaxis[xb + 1] < radius THEN xb + 1 ELSE xb) + 1,
         ya |-> IF -c.yaxis[ya + 1] < radius THEN ya - 1 ELSE ya,
         yb |-> (IF c.yaxis[yb + 1] < radius THEN yb + 1 ELSE yb) + 1]

\* self._clip_cube(radius) on the object c: the object it leaves, or the
\* error of max() on an axis without elements
_clip_cube(c, radius) ==
    IF Len(c.xaxis) = 0 THEN Raise("ValueError: max() arg is an empty sequence", c)
    ELSE IF ~(radius < max_of(c.xaxis)) THEN Return(c)
    ELSE IF Len(c.yaxis) = 0 THEN Raise("ValueError: max() arg is an empty sequence", c)
    ELSE IF ~(radius < max_of(c.yaxis)) THEN Return(c)
    ELSE LET b == clip_bounds(c, radius)
         IN  Return([c EXCEPT !.xaxis = slice1(c.xaxis, b.xa, b.xb, 1),
                              !.yaxis = slice1(c.yaxis, b.ya, b.yb, 1),
                              !.data = slice2(c.data, b.ya, b.yb, 1, b.xa, b.xb, 1),
                              !.error = slice2(c.error, b.ya, b.yb, 1, b.xa, b.xb, 1)])

\* int(np.ceil(self.bmaj / self.dpix)) with dpix = 2
beam_factor(bmaj) == (bmaj + 1) \div 2

\* rotationmap(path, uncertainty, FOV, downsample) for the image and the
\* uncertainty file of a: lines 71-122 and 125, in m/s and without a shift
\* of the centre
__init__(a) ==
    LET data0 == to_kms(getdata(a.naxis1, a.naxis2, {<<1, 2>>}))
        error0 == to_kms(nan_to_zero(np_abs(getdata(a.naxis1, a.naxis2, {<<2, 1>>}))))
        xaxis0 == _read_position_axis(a.naxis1, a.cdelt1, (a.naxis1 \div 2) + 1)
        yaxis0 == _read_position_axis(a.naxis2, 1, (a.naxis2 \div 2) + 1)
        dpix0 == mean_abs_diff(xaxis0)
        \* self._readbeam(): without 'bmaj' in the header the beam is a pixel
        bmaj == IF a.bmaj = NoneV THEN dpix0.v ELSE a.bmaj.v
        read == [data |-> data0, error |-> error0, xaxis |-> xaxis0,
                 yaxis |-> yaxis0, dpix |-> dpix0, bmaj |-> bmaj]
        N == IF a.downsample = BeamV THEN beam_factor(bmaj) ELSE a.downsample.v
        sampled == IF a.downsample = NoneV THEN read
                   ELSE [_downsample_cube(read, N) EXCEPT
                            !.dpix = mean_abs_diff(_downsample_cube(read, N).xaxis)]
        clipped == IF a.FOV = NoneV THEN Return(sampled)
                   ELSE _clip_cube(sampled, a.FOV.v \div 2)
        c == clipped.val
    IN  IF clipped.err # "none" THEN Raise(clipped.err, <<>>)
        ELSE Return([data |-> c.data, error |-> c.error, xaxis |-> c.xaxis,
                     yaxis |-> c.yaxis, dpix |-> c.dpix, bmaj |-> c.bmaj,
                     nypix |-> Len(c.yaxis), nxpix |-> Len(c.xaxis),
                     mask |-> np_isfinite(c.data),
                     vlsr |-> np_nanmedian(c.data)])

\* the images and arguments tried: 2 to MaxAxis pixels along each axis, the
\* x axis running either way, no downsampling, a factor of 1 to
\* MaxDownsample or the beam (absent from the header, or 2.5 pixels), and
\* no clip or a field of view of 1 to 7 pixels
CubeCalls ==
    { c \in [naxis1 : 2..MaxAxis, naxis2 : 2..MaxAxis, cdelt1 : {-1, 1},
             downsample : {NoneV, BeamV} \cup {IntV(N) : N \in 1..MaxDownsample},
             bmaj : {NoneV, FloatV(5)},
             FOV : {NoneV} \cup {FloatV(f) : f \in {2, 4, 6, 8, 14}}] :
        c.bmaj = NoneV \/ c.downsample = BeamV }

InitCube ==
    /\ data = VelocityMap({}, 1)
    /\ error = ErrorMap({}, 1)
    /\ shadowed \in BOOLEAN
    /\ params = <<>>
    /\ theta = <<>>
    /\ priors = <<>>
    /\ ret = NoCall
    /\ FitIdle /\ call \in CubeCalls

\* cube = rotationmap(...): the object, the default priors written into the
\* registry of the class, shadowed reset
Construct ==
    LET out == __init__(call)
    IN  /\ ret' = Called("__init__", call, <<>>, out)
        /\ IF out.err = "none"
           THEN priors' = _set_default_priors(priors) /\ shadowed' = FALSE
           ELSE UNCHANGED <<priors, shadowed>>
        /\ UNCHANGED <<data, error, params, theta, fitvars>>

NextCube == Construct

SpecCube == InitCube /\ [][NextCube]_vars

\* the constructor returned an object
Constructed == ret.op = "__init__" /\ ret.err = "none"

(* C20: after a rotationmap is constructed with any downsample factor and  *)
(* any field-of-view clip, the data array, the uncertainty array and the   *)
(* finite-value mask have the same shape, and that shape is                *)
(* (len(yaxis), len(xaxis)) = (nypix, nxpix).                              *)
C20_Shapes ==
    Constructed =>
        /\ shape(ret.val.data) = shape(ret.val.error)
        /\ shape(ret.val.data) = shape(ret.val.mask)
        /\ shape(ret.val.data) = <<Len(ret.val.yaxis), Len(ret.val.xaxis)>>
        /\ shape(ret.val.data) = <<ret.val.nypix, ret.val.nxpix>>

\* an image downsampled by 2 and then clipped along both axes, pixels left
C20_Witness ==
    /\ Constructed
    /\ ret.arg.downsample = IntV(2) /\ ret.arg.FOV # NoneV
    /\ ret.val.nxpix > 0 /\ ret.val.nypix > 0
    /\ ret.val.nxpix < Len(PySlice(ret.arg.naxis1, 1, ret.arg.naxis1, 2))
    /\ ret.val.nypix < Len(PySlice(ret.arg.naxis2, 1, ret.arg.naxis2, 2))

-----------------------------------------------------------------------------
(* SpecEval: evaluate_models called on sample arrays of one to three       *)
(* columns, dictionaries with and without boolean flags, and a float       *)
(* draws.                                                                  *)

\* dictionaries with the mass and the systemic velocity free, the position
\* angle fixed or free, and no flag, a mask flag or the beam flag given
EvalSpecs ==
    { <<Item("inc", FloatV(60)), Item("PA", pa), Item("mstar", IntV(0)),
        Item("vlsr", IntV(1)), Item("x0", FloatV(x))>> \o flag
      : pa \in {FloatV(90), IntV(2)}, x \in {0, 1},
        flag \in {<<>>, <<Item("exclude_r", BoolV(TRUE))>>,
                  <<Item("beam", BoolV(FALSE))>>} }

\* sample arrays of three rows: <<mstar, vlsr, PA>> cut to ncol columns,
\* the rows 200 apart in mass and velocity so that the percentiles taken
\* are whole numbers
EvalSamples ==
    { [n \in 1..3 |-> SubSeq(<<10 + base + (200 * ((n + base) % 3)),
                               5000 + (200 * ((n + 1) % 3)), 90>>, 1, ncol)]
      : ncol \in 1..MaxTheta, base \in {0, 1} }

\* draws = 0.0, 0.5 (the default) or 1.0, in hundredths
EvalDraws == {0, 50, 100}

NoEval == [optimize |-> FALSE, niter |-> 0, shadowed |-> FALSE,
           r_min |-> NoneV, r_max |-> NoneV, draws |-> 0]

InitEval ==
    /\ data = VelocityMap({}, 1)
    /\ error = ErrorMap({}, 1)
    /\ shadowed = FALSE
    /\ params \in EvalSpecs
    /\ theta = <<>>
    /\ priors = _set_default_priors(<<>>)
    /\ ret = NoCall
    /\ pc = "idle" /\ p0 = <<>> /\ res = NoRes /\ params_tmp = <<>>
    /\ ivar = <<>> /\ iter = 0 /\ sampler = <<>> /\ medians = <<>>
    /\ max_likelihood = <<>> /\ trace = <<>>
    /\ samples \in EvalSamples
    /\ call \in {[NoEval EXCEPT !.draws = d] : d \in EvalDraws}

\* self.evaluate_models(samples, params, draws)
CallEvaluateModels ==
    LET out == evaluate_models(samples, params, call.draws)
    IN  /\ ret' = [op |-> "evaluate_models", arg |-> params, theta |-> out.at,
                   err |-> out.err, val |-> out.val]
        /\ UNCHANGED <<data, error, shadowed, params, theta, priors, fitvars>>

NextEval == CallEvaluateModels

SpecEval == InitEval /\ [][NextEval]_vars

\* the d-quantiles of the columns of smp, d in hundredths: their 100 d-th
\* percentiles
QuantilePoint(smp, d) ==
    [i \in DOMAIN smp[1] |-> percentile([n \in DOMAIN smp |-> smp[n][i]], d)]

(* C22: with a float draws = d, 0 <= d <= 1, evaluate_models evaluates the *)
(* model at the vector of the d-quantiles (the 100 d-th percentiles) of    *)
(* the columns of samples: at the medians for the default d = 0.5.         *)
C22_Quantile ==
    (ret.op = "evaluate_models" /\ ret.err = "none") =>
        ret.theta = QuantilePoint(samples, call.draws)

\* samples has as many columns as params has free parameters
ColumnsMatch == Len(samples[1]) = Len(_get_labels(params))

(* C28: evaluate_models accepts a sample array exactly when its number of  *)
(* columns is the number of integer index entries of params, booleans not  *)
(* counted: it raises the ValueError on a true mismatch and only then.     *)
C28_ColumnCheck ==
    ret.op = "evaluate_models" =>
        (ColumnsMatch <=>
            ret.err # "ValueError: Invalid number of free parameters in 'samples'")

-----------------------------------------------------------------------------
(* SpecWalkers: _random_p0 called on vectors with and without zeros.  The  *)
(* scatter and the positions returned are counted in thousandths, the      *)
(* Gaussian draws in units.                                                *)

\* the Gaussian draw of walker w for parameter i in the outcome seed of
\* np.random.randn: a number of -2..2
randn(seed, w, i) == ((seed + (2 * w) + (3 * i)) % 5) - 2
RandnSeeds == 0..4

\* rotationmap._random_p0(p0, scatter, nwalkers) with the draws of seed:
\* np.squeeze turns a vector of one element into a 0-d array, which has
\* no len()
_random_p0_mut(vec, scatter, nwalkers, seed) ==
    IF Len(vec) = 1 THEN Raise("TypeError: len() of unsized object", <<>>)
    ELSE Return([w \in 1..nwalkers |-> [i \in 1..Len(vec) |->
            (IF vec[i] = 0 THEN 1 ELSE vec[i])
                * (1000 + (scatter * randn(seed, w, i)))]])
_random_p0(vec, scatter, nwalkers, seed) ==
    IF Len(vec) = 1 THEN Raise("TypeError: len() of unsized object", <<>>)
    ELSE Return([w \in 1..nwalkers |-> [i \in 1..Len(vec) |->
            LET dp0 == (IF vec[i] = 0 THEN 1 ELSE vec[i])
                           * (1000 + (scatter * randn(seed, w, i)))
            IN  IF vec[i] = 0 THEN dp0 - 1000 ELSE dp0]])

\* the vectors given: one to MaxTheta elements, zero or not
WalkerVectors ==
    UNION {[1..ndim -> {-5, 0, 10}] : ndim \in 1..MaxTheta}
\* scatter = 0, 1e-3 (the default) or 0.05, and the numbers of walkers
WalkerCalls == [scatter : {0, 1, 50}, nwalkers : {2, 4}]

InitWalkers ==
    /\ data = VelocityMap({}, 1)
    /\ error = ErrorMap({}, 1)
    /\ shadowed = FALSE
    /\ params = <<>>
    /\ theta \in WalkerVectors
    /\ priors = _set_default_priors(<<>>)
    /\ ret = NoCall
    /\ FitIdle /\ call \in WalkerCalls

\* rotationmap._random_p0(theta, scatter, nwalkers)
CallRandomP0 ==
    \E seed \in RandnSeeds :
        /\ ret' = [Called("_random_p0", call, theta,
                          _random_p0(theta, call.scatter, call.nwalkers, seed))
                   EXCEPT !.arg = [scatter |-> call.scatter,
                                   nwalkers |-> call.nwalkers, seed |-> seed]]
        /\ UNCHANGED <<data, error, shadowed, params, theta, priors, fitvars>>

NextWalkers == CallRandomP0

SpecWalkers == InitWalkers /\ [][NextWalkers]_vars

(* C25: _random_p0 starts walker w, parameter i at p0[i] (1 + scatter n)   *)
(* when p0[i] is not zero and at scatter n when p0[i] is zero, n being the *)
(* walker's Gaussian draw; the result has nwalkers rows of len(p0)         *)
(* elements, and every row is p0 when scatter is 0.                        *)
C25_RandomP0 ==
    (ret.op = "_random_p0" /\ ret.err = "none") =>
        /\ Len(ret.val) = ret.arg.nwalkers
        /\ \A w \in DOMAIN ret.val :
            /\ Len(ret.val[w]) = Len(ret.theta)
            /\ \A i \in DOMAIN ret.theta :
                   LET noise == ret.arg.scatter * randn(ret.arg.seed, w, i)
                   IN  /\ ret.theta[i] # 0 =>
                            ret.val[w][i] = ret.theta[i] * (1000 + noise)
                       /\ ret.theta[i] = 0 => ret.val[w][i] = noise
                       /\ ret.arg.scatter = 0 =>
                            ret.val[w][i] = 1000 * ret.theta[i]

\* a vector with a zero and a non-zero element, both scattered
C25_Witness ==
    /\ ret.op = "_random_p0" /\ ret.err = "none"
    /\ ret.arg.scatter > 0
    /\ \E w \in DOMAIN ret.val : \E i, j \in DOMAIN ret.theta :
           /\ ret.theta[i] = 0 /\ ret.val[w][i] # 0
           /\ ret.theta[j] # 0 /\ ret.val[w][j] # 1000 * ret.theta[j]

-----------------------------------------------------------------------------
(* SpecShadow: the occlusion filter of get_shadowed_coords applied to      *)
(* inclined coordinates y_dep of every shape of column.  An array is the   *)
(* sequence of its rows; axis 0 runs over the rows.                        *)

\* the number of rows of the arrays tried
MaxRows == 3

max2(a, b) == IF a >= b THEN a ELSE b
min2(a, b) == IF a <= b THEN a ELSE b

\* array[::-1]
reversed(a) == [j \in DOMAIN a |-> a[(Len(a) - j) + 1]]

\* np.maximum.accumulate(a, axis=0), np.minimum.accumulate(a, axis=0): row
\* j is the element-wise maximum (minimum) of row j and the row before it
\* in the result
maximum_accumulate(a) ==
    LET acc[j \in DOMAIN a] ==
            IF j = 1 THEN a[1]
            ELSE [i \in DOMAIN a[j] |-> max2(acc[j - 1][i], a[j][i])]
    IN  [j \in DOMAIN a |-> acc[j]]
minimum_accumulate(a) ==
    LET acc[j \in DOMAIN a] ==
            IF j = 1 THEN a[1]
            ELSE [i \in DOMAIN a[j] |-> min2(acc[j - 1][i], a[j][i])]
    IN  [j \in DOMAIN a |-> acc[j]]

\* lines 1063-1067: the shadowed pixels are removed
remove_shadowed_mut(y_dep, inc) ==
    IF inc < 0 THEN maximum_accumulate(y_dep)
    ELSE minimum_accumulate(y_dep)
remove_shadowed(y_dep, inc) ==
    IF inc < 0 THEN maximum_accumulate(y_dep)
    ELSE reversed(minimum_accumulate(reversed(y_dep)))

\* arrays of MaxRows rows and two columns, and the inclinations
ShadowCalls ==
    [inc : {-30, 0, 30}, y_dep : [1..MaxRows -> [1..2 -> {-1, 0, 2}]]]

InitShadow ==
    /\ data = VelocityMap({}, 1)
    /\ error = ErrorMap({}, 1)
    /\ shadowed = TRUE
    /\ params = <<>>
    /\ theta = <<>>
    /\ priors = _set_default_priors(<<>>)
    /\ ret = NoCall
    /\ FitIdle /\ call \in ShadowCalls

\* the filter of get_shadowed_coords on y_dep
RemoveShadowed ==
    /\ ret' = Called("remove_shadowed", call, <<>>,
                     Return(remove_shadowed(call.y_dep, call.inc)))
    /\ UNCHANGED <<data, error, shadowed, params, theta, priors, fitvars>>

NextShadow == RemoveShadowed

SpecShadow == InitShadow /\ [][NextShadow]_vars

\* the elements of column i of a in the rows js
ColumnValues(a, i, js) == {a[j][i] : j \in js}

(* C26: the occlusion filter replaces y_dep along axis 0 by its running    *)
(* maximum from the first row when the inclination is negative and         *)
(* otherwise by its running minimum from the last row inward: every        *)
(* filtered value is the maximum of the rows up to its own (negative       *)
(* inclination) or the minimum of the rows from its own on (otherwise) of  *)
(* the original column, and the filtered values do not decrease with the   *)
(* row index.                                                              *)
C26_OcclusionFilter ==
    ret.op = "remove_shadowed" =>
        \A j \in DOMAIN ret.val : \A i \in DOMAIN ret.val[j] :
            /\ ret.arg.inc < 0 =>
                    ret.val[j][i] = SetMax(ColumnValues(ret.arg.y_dep, i, 1..j))
            /\ ret.arg.inc >= 0 =>
                    ret.val[j][i] =
                        SetMin(ColumnValues(ret.arg.y_dep, i, j..Len(ret.val)))
            /\ j < Len(ret.val) => ret.val[j][i] <= ret.val[j + 1][i]

\* a column that falls and rises again, filtered from the far edge
C26_Witness ==
    /\ ret.op = "remove_shadowed"
    /\ ret.arg.inc >= 0
    /\ \E i \in 1..2 :
           /\ ret.arg.y_dep[1][i] > ret.arg.y_dep[2][i]
           /\ ret.val[1][i] < ret.arg.y_dep[1][i]

-----------------------------------------------------------------------------
(* SpecRegistry: two rotationmap instances of the same image.  Either one  *)
(* sets priors and computes log-priors, and either one is constructed      *)
(* anew; trace lists the calls that wrote the registry, with the instance  *)
(* that made them.                                                         *)

\* the number of calls writing the registry that are followed
MaxCalls == 2

Instances == {1, 2}

\* the set_prior calls tried: a wider flat prior on the inclination, a
\* gaussian prior on the systemic velocity and an unknown type
RegistryCalls ==
    { <<"inc", <<0, 180>>, "Flat">>, <<"vlsr", <<5000, 1000>>, "gaussian">>,
      <<"PA", <<0, 360>>, "uniform">> }

\* verified dictionaries with the inclination inside (60) or outside (120)
\* the default prior, and the systemic velocity inside it
RegistrySpecs ==
    { verify_params_dictionary(
          <<Item("inc", FloatV(a)), Item("PA", FloatV(90)),
            Item("mstar", FloatV(10)), Item("vlsr", FloatV(5000))>>).val :
          a \in {60, 120} }

InitRegistry ==
    /\ data = VelocityMap({}, 1)
    /\ error = ErrorMap({}, 1)
    /\ shadowed = FALSE
    /\ params \in RegistrySpecs
    /\ theta = <<>>
    /\ priors = _set_default_priors(<<>>)
    /\ ret = NoCall
    /\ FitIdle /\ call = NoFit

Wrote(name, inst, c) == [ev |-> name, inst |-> inst, arg |-> c]

\* instance inst calls set_prior(param, args, type)
SetPriorBy ==
    \E inst \in Instances : \E c \in RegistryCalls :
        LET out == set_prior(priors, c[1], c[2], c[3])
        IN  /\ Len(trace) < MaxCalls
            /\ priors' = out.val
            /\ trace' = Append(trace, Wrote("set_prior", inst, c))
            /\ ret' = [op |-> "set_prior", arg |-> c, theta |-> <<>>,
                       err |-> out.err, val |-> <<>>, inst |-> inst]
            /\ UNCHANGED <<data, error, shadowed, params, theta, pc, call, p0, res,
                           params_tmp, ivar, iter, sampler, samples, medians,
                           max_likelihood>>

\* instance inst is constructed anew from the image: the constructor calls
\* self._set_default_priors()
ConstructBy ==
    \E inst \in Instances :
        /\ Len(trace) < MaxCalls
        /\ priors' = _set_default_priors(priors)
        /\ trace' = Append(trace, Wrote("__init__", inst, <<>>))
        /\ ret' = [op |-> "__init__", arg |-> <<>>, theta |-> <<>>,
                   err |-> "none", val |-> <<>>, inst |-> inst]
        /\ UNCHANGED <<data, error, shadowed, params, theta, pc, call, p0, res,
                       params_tmp, ivar, iter, sampler, samples, medians,
                       max_likelihood>>

\* instance inst calls self._ln_prior(params)
LnPriorBy ==
    \E inst \in Instances :
        LET out == _ln_prior(priors, params)
        IN  /\ ret' = [op |-> "_ln_prior", arg |-> params, theta |-> <<>>,
                       err |-> out.err, val |-> out.val, inst |-> inst]
            /\ UNCHANGED <<data, error, shadowed, params, theta, priors, fitvars>>

NextRegistry == SetPriorBy \/ ConstructBy \/ LnPriorBy

SpecRegistry == InitRegistry /\ [][NextRegistry]_vars

\* the names with a default prior, and the default of one
DefaultNames == {default_priors[i][1] : i \in DOMAIN default_priors}
DefaultEntry(k) ==
    [type |-> "flat",
     args |-> default_priors[CHOOSE i \in DOMAIN default_priors :
                                default_priors[i][1] = k][2]]

\* the calls of the trace that decide the prior of the name k, whichever
\* instance made them: a construction, or a set_prior of k with a known type
Deciding(k) ==
    {n \in DOMAIN trace :
        \/ trace[n].ev = "__init__"
        \/ /\ trace[n].ev = "set_prior" /\ trace[n].arg[1] = k
           /\ lower(trace[n].arg[3]) \in {"flat", "gaussian"}}
\* the prior of k in effect: that of the last deciding call
InEffect(k) ==
    IF Deciding(k) = {} \/ trace[SetMax(Deciding(k))].ev = "__init__"
    THEN DefaultEntry(k)
    ELSE [type |-> lower(trace[SetMax(Deciding(k))].arg[3]),
          args |-> trace[SetMax(Deciding(k))].arg[2]]

(* C29: the prior registry is one dictionary shared by all instances: the  *)
(* prior in effect for a name is the one the last set_prior of any         *)
(* instance gave it, the log-prior every instance computes is taken from   *)
(* these priors, and a construction of any instance puts the default prior *)
(* back for every default name, overriding what was set before.            *)
C29_SharedRegistry ==
    /\ DOMAIN priors = DefaultNames
    /\ \A k \in DefaultNames : priors[k] = InEffect(k)
    /\ ret.op = "_ln_prior" =>
            ret.val = _ln_prior([k \in DefaultNames |-> InEffect(k)], ret.arg).val

\* instance 1 widens the prior of the inclination, instance 2 is
\* constructed, and instance 1 finds an inclination of 120 outside the
\* prior again
C29_Witness ==
    /\ Len(trace) = 2
    /\ trace[1] = Wrote("set_prior", 1, <<"inc", <<0, 180>>, "Flat">>)
    /\ trace[2] = Wrote("__init__", 2, <<>>)
    /\ ret.op = "_ln_prior" /\ ret.inst = 1
    /\ GetItem(ret.arg, "inc") = FloatV(120)
    /\ ret.val = NegInf

-----------------------------------------------------------------------------
(* SpecFixed: the calls of SpecProb on dictionaries whose inclination is   *)
(* fixed inside the default prior (60), on its bound (90) or outside it    *)
(* (120), the mass and the systemic velocity being free.                   *)

FixedSpecs ==
    { <<Item("inc", FloatV(a)), Item("PA", FloatV(90)), Item("mstar", IntV(0)),
        Item("vlsr", IntV(1)), Item("x0", FloatV(x)), Item("y0", FloatV(x))>>
      : a \in {60, 90, 120}, x \in {0, 1} }

InitFixed ==
    /\ data = VelocityMap({}, 1)
    /\ error = ErrorMap({}, 1)
    /\ shadowed = FALSE
    /\ params \in FixedSpecs
    /\ theta \in ProbThetas
    /\ priors = _set_default_priors(<<>>)
    /\ ret = NoCall
    /\ FitIdle /\ call = NoFit

SpecFixed == InitFixed /\ [][NextProb]_vars

\* the keys of the dictionary d that have a registry entry, in the order of d
KeysWithPrior(d) ==
    LET has(i) == d[i].k \in DOMAIN priors
        at == SelectSeq([i \in DOMAIN d |-> i], has)
    IN  [n \in DOMAIN at |-> d[at[n]].k]
\* the keys given as numbers in d (not as indices into theta) whose value is
\* below both or above both arguments of their flat prior
FixedOutside(d) ==
    {i \in DOMAIN d :
        /\ ~is_index(d[i].v) /\ d[i].k \in DOMAIN priors
        /\ priors[d[i].k].type = "flat"
        /\ \/ d[i].v.v < SetMin({priors[d[i].k].args[1], priors[d[i].k].args[2]})
           \/ d[i].v.v > SetMax({priors[d[i].k].args[1], priors[d[i].k].args[2]})}

(* C30, as the code has it: the log-prior of _ln_probability runs over     *)
(* every key of the populated dictionary that has a registry entry, fixed  *)
(* values and filled-in defaults included; a fixed value strictly outside  *)
(* the bounds of its flat prior (a fixed inclination above 90 degrees with *)
(* the default prior) makes _ln_probability return -infinity for every     *)
(* vector, without calling the likelihood.  The bounds themselves belong   *)
(* to the prior: an inclination of exactly 90 is accepted.                 *)
C30_PriorOverAll ==
    ret.op = "_ln_probability" =>
        /\ ret.err = "none" /\ isfinite(ret.val.val) =>
                ret.val.evaluated =
                    KeysWithPrior(_populate_dictionary(ret.theta, ret.arg).val)
        /\ FixedOutside(ret.arg) # {} =>
                /\ ret.err = "none" /\ ret.val.val = NegInf
                /\ ~ret.val.likelihood
        /\ ( /\ GetItem(ret.arg, "inc") = FloatV(90)
             /\ priors["inc"] = DefaultEntry("inc")
             /\ ret.err = "none" /\ ret.val.likelihood ) =>
                "inc" \in {ret.val.evaluated[n] : n \in DOMAIN ret.val.evaluated}

\* a vector inside every prior, on a dictionary with the inclination fixed
\* at 120: the default prior of the inclination was called and the result
\* is -infinity
C30_Witness ==
    /\ ret.op = "_ln_probability" /\ ret.err = "none"
    /\ ret.theta = <<10, 5000>>
    /\ GetItem(ret.arg, "inc") = FloatV(120)
    /\ priors["inc"] = DefaultEntry("inc")
    /\ "inc" \in {ret.val.evaluated[n] : n \in DOMAIN ret.val.evaluated}
    /\ ret.val.val = NegInf

(* C30, as stated: with the default priors a fixed inclination of 90       *)
(* degrees or more makes _ln_probability return -infinity for every        *)
(* vector.                                                                 *)
C30_FixedInclination ==
    ( /\ ret.op = "_ln_probability"
      /\ priors["inc"] = DefaultEntry("inc")
      /\ ~is_index(GetItem(ret.arg, "inc"))
      /\ GetItem(ret.arg, "inc").v >= 90 ) =>
        ret.err = "none" /\ ret.val.val = NegInf

=============================================================================
